---- MODULE Spec2Model ----
(***************************************************************************)
(* TaskMaster: the task repository, the activity log, the reminder         *)
(* scheduler and the notification feed of the browser task manager, as a   *)
(* state machine.  Every handler of the program is an operator from a      *)
(* state record to a state record, so that a handler which calls another   *)
(* (toggleTask -> addActivity -> saveTasks, scheduleReminder ->            *)
(* cancelReminder) is the composition of the operators; an action applies  *)
(* one handler to the current state.                                       *)
(*                                                                         *)
(* Time is Date.now() in milliseconds.  uid(), generateId() and the timer  *)
(* handles of window.setTimeout are fresh counters.                        *)
(***************************************************************************)
EXTENDS Integers, Sequences, FiniteSets, TLC

VARIABLES
    now,              \* Date.now()
    tasks,            \* state.tasks
    activities,       \* state.activities
    availableTags,    \* state.availableTags
    filter,           \* state.filter
    notifications,    \* InternalNotificationManager.notifications
    activeReminders,  \* InternalNotificationManager.activeReminders (a Map)
    timers,           \* callbacks registered with window.setTimeout, not yet run
    nextUid,          \* next value of uid()
    nextNotif,        \* next value of generateId()
    nextTimer,        \* next handle of window.setTimeout
    storage,          \* localStorage: the keys present and their values
    csvFile,          \* the content of the CSV file of the last export
    stats,            \* the statistics of the profile of the user
    dialog,           \* the confirmation dialog that is open, if any
    jsonFile,         \* the file written by the last exportToJSON
    lastOp            \* the handler that ran last, its arguments and result

vars == <<now, tasks, activities, availableTags, filter, notifications,
          activeReminders, timers, nextUid, nextNotif, nextTimer, storage,
          dialog, jsonFile, csvFile, stats, lastOp>>

----------------------------------------------------------------------------
(* Bounds of the model *)

MaxTime == 2
MaxNotifs == 3
MaxTimers == 3
MgrTaskIds == 2
MaxUid == 4
MaxTasks == 2
MaxPerKind == 4
MaxDaysBack == 4
MaxTitleLen == 3
\* The ticks of 20 minutes the clock of the login form makes
MaxTicks == 3
\* The days the clock of the sessions makes
MaxDays == 8

(* Program constants *)

MAX_NOTIFICATIONS == 50
MAX_ACTIVITIES == 100
MinuteMs == 60000
SnoozeMinutes == 10

(* JavaScript values of an optional field *)

Undefined == -1
NaNValue == -2
NullValue == -3
NoTask == 0

----------------------------------------------------------------------------
(* Sequences and maps *)

Min(a, b) == IF a <= b THEN a ELSE b

\* Array.prototype.slice(0, n)
Slice(seq, n) == SubSeq(seq, 1, Min(n, Len(seq)))

\* Map.prototype.set
MapSet(m, k, v) == [x \in DOMAIN m \cup {k} |-> IF x = k THEN v ELSE m[x]]

\* Map.prototype.delete
MapDelete(m, k) == [x \in DOMAIN m \ {k} |-> m[x]]

EmptyMap == [x \in {} |-> 0]

\* localStorage holds no session record
NoSession == [email |-> "", createdAt |-> 0, expiresAt |-> 0,
              status |-> "none"]

TitleA == <<"A">>

DefaultTags == <<"Trabajo", "Personal", "Estudio", "Urgente">>

\* The content of a JSON file: the fields importFromJSON reads
EmptyFile == [hasTasks |-> TRUE, tasks |-> <<>>,
              hasTags |-> FALSE, availableTags |-> <<>>,
              hasActivities |-> FALSE, activities |-> <<>>]

\* createInitialProfile(): the statistics of a new profile
InitialStatistics == [productivityScore |-> 0, streakDays |-> 0]

NoDialog == [kind |-> "none", id |-> NoTask, file |-> EmptyFile]

----------------------------------------------------------------------------
(* The state record the handlers work on *)

St == [now |-> now, tasks |-> tasks, activities |-> activities,
       availableTags |-> availableTags, filter |-> filter,
       notifications |-> notifications,
       activeReminders |-> activeReminders, timers |-> timers,
       nextUid |-> nextUid, nextNotif |-> nextNotif, nextTimer |-> nextTimer,
       storage |-> storage, dialog |-> dialog, jsonFile |-> jsonFile,
       csvFile |-> csvFile, stats |-> stats,
       ret |-> "void"]

\* The step that leaves the program in state s after handler op ran
Becomes(s, op, id, arg, pre) ==
    /\ now' = s.now
    /\ tasks' = s.tasks
    /\ activities' = s.activities
    /\ availableTags' = s.availableTags
    /\ filter' = s.filter
    /\ notifications' = s.notifications
    /\ activeReminders' = s.activeReminders
    /\ timers' = s.timers
    /\ nextUid' = s.nextUid
    /\ nextNotif' = s.nextNotif
    /\ nextTimer' = s.nextTimer
    /\ storage' = s.storage
    /\ dialog' = s.dialog
    /\ csvFile' = s.csvFile
    /\ stats' = s.stats
    /\ jsonFile' = s.jsonFile
    /\ lastOp' = [op |-> op, id |-> id, arg |-> arg, ret |-> s.ret, pre |-> pre]

----------------------------------------------------------------------------
(* InternalNotificationManager: the feed *)

PrefixReminder == "Es hora de: "

\* storage.throws: localStorage.setItem throws (quota, permission); the
\* catch block logs the error
saveNotifications(s) ==
    IF s.storage.throws THEN s
    ELSE [s EXCEPT !.storage = [@ EXCEPT !.notifications = s.notifications,
                                         !.keys = @ \cup {"notifications"}]]

\* Faulty variant: the feed is not truncated
addNotificationNoLimit(s, notification) ==
    saveNotifications(
        [s EXCEPT !.notifications = <<notification>> \o s.notifications])

\* Faulty variant: the new notification is appended at the end
addNotificationAtEnd(s, notification) ==
    saveNotifications([s EXCEPT !.notifications =
        Slice(Append(s.notifications, notification), MAX_NOTIFICATIONS)])

addNotification(s, notification) ==
    LET unshifted == <<notification>> \o s.notifications
    IN  saveNotifications([s EXCEPT !.notifications =
            IF Len(unshifted) > MAX_NOTIFICATIONS
            THEN Slice(unshifted, MAX_NOTIFICATIONS)
            ELSE unshifted])

createReminderNotification(s, taskId, taskTitle) ==
    addNotification([s EXCEPT !.nextNotif = s.nextNotif + 1],
        [id |-> s.nextNotif, type |-> "reminder",
         message |-> <<PrefixReminder>> \o taskTitle,
         timestamp |-> s.now, read |-> FALSE, taskId |-> taskId,
         actions |-> <<"view_task", "snooze">>])

createSystemNotification(s, message, type) ==
    addNotification([s EXCEPT !.nextNotif = s.nextNotif + 1],
        [id |-> s.nextNotif, type |-> type, message |-> message,
         timestamp |-> s.now, read |-> FALSE, taskId |-> NoTask,
         actions |-> <<>>])

PrefixCompleted == "Felicidades! Has completado: "

createTaskCompletedNotification(s, taskTitle) ==
    addNotification([s EXCEPT !.nextNotif = s.nextNotif + 1],
        [id |-> s.nextNotif, type |-> "task_completed",
         message |-> <<PrefixCompleted>> \o taskTitle,
         timestamp |-> s.now, read |-> FALSE, taskId |-> NoTask,
         actions |-> <<>>])

removeNotification(s, notificationId) ==
    LET Other(n) == n.id # notificationId
    IN  saveNotifications(
            [s EXCEPT !.notifications = SelectSeq(s.notifications, Other)])

markAllAsRead(s) ==
    saveNotifications([s EXCEPT !.notifications =
        [i \in 1..Len(s.notifications) |->
            [s.notifications[i] EXCEPT !.read = TRUE]]])

clearAllNotifications(s) ==
    saveNotifications([s EXCEPT !.notifications = <<>>])

----------------------------------------------------------------------------
(* InternalNotificationManager: the reminder scheduler *)

\* Faulty variant: the map entry is deleted, the timeout is not cleared
cancelReminderKeepTimer(s, taskId) ==
    IF taskId \in DOMAIN s.activeReminders
    THEN [s EXCEPT !.activeReminders = MapDelete(s.activeReminders, taskId)]
    ELSE s

\* Faulty variant: the timeout is cleared, the map entry stays
cancelReminderKeepEntry(s, taskId) ==
    IF taskId \in DOMAIN s.activeReminders
    THEN [s EXCEPT !.timers = {t \in s.timers :
                        t.handle # s.activeReminders[taskId].timeoutId}]
    ELSE s

cancelReminder(s, taskId) ==
    IF taskId \in DOMAIN s.activeReminders
    THEN LET reminder == s.activeReminders[taskId]
         IN  [s EXCEPT
                \* clearTimeout(reminder.timeoutId)
                !.timers = {t \in s.timers : t.handle # reminder.timeoutId},
                !.activeReminders = MapDelete(s.activeReminders, taskId)]
    ELSE s

\* window.setTimeout takes the delay as a signed 32-bit integer: a delay of
\* 2^31 ms (24.8 days) or more wraps around, and a negative delay counts
\* as 0. The integers of the model end at 2^31 - 1, so FarFuture stands
\* for an instant that is 2^31 ms after the instant of the call.
FarFuture == 2147483647

TimeoutDelay(datetime, delay) == IF datetime = FarFuture THEN 0 ELSE delay

\* Faulty variant: the existing reminder is cancelled before the date check
scheduleReminderCancelFirst(s, taskId, taskTitle, datetime) ==
    LET delay == datetime - s.now
        c == cancelReminder(s, taskId)
    IN  IF delay <= 0
        THEN [c EXCEPT !.ret = "false"]
        ELSE [c EXCEPT
                !.timers = c.timers \cup
                    {[handle |-> c.nextTimer, taskId |-> taskId,
                      taskTitle |-> taskTitle, due |-> s.now + delay]},
                !.activeReminders = MapSet(c.activeReminders, taskId,
                    [taskId |-> taskId, taskTitle |-> taskTitle,
                     datetime |-> datetime, timeoutId |-> c.nextTimer]),
                !.nextTimer = c.nextTimer + 1,
                !.ret = "true"]

scheduleReminder(s, taskId, taskTitle, datetime) ==
    LET delay == datetime - s.now
    IN  IF delay <= 0
        THEN [s EXCEPT !.ret = "false"]
        ELSE LET c == cancelReminder(s, taskId)
             IN  [c EXCEPT
                    \* window.setTimeout(callback, delay)
                    !.timers = c.timers \cup
                        {[handle |-> c.nextTimer, taskId |-> taskId,
                          taskTitle |-> taskTitle,
                          due |-> s.now + TimeoutDelay(datetime, delay)]},
                    !.activeReminders = MapSet(c.activeReminders, taskId,
                        [taskId |-> taskId, taskTitle |-> taskTitle,
                         datetime |-> datetime, timeoutId |-> c.nextTimer]),
                    !.nextTimer = c.nextTimer + 1,
                    !.ret = "true"]

snoozeReminder(s, taskId, taskTitle, minutes) ==
    LET snoozeTime == s.now + (minutes * MinuteMs)
    IN  scheduleReminder(s, taskId, taskTitle, snoozeTime)

\* The callback given to window.setTimeout by scheduleReminder
reminderCallback(s, t) ==
    LET c == createReminderNotification(s, t.taskId, t.taskTitle)
    IN  [c EXCEPT !.activeReminders = MapDelete(c.activeReminders, t.taskId)]

\* String.prototype.replace(PrefixReminder, ''): the first occurrence goes
RECURSIVE ReplaceFirst(_, _)
ReplaceFirst(str, what) ==
    IF str = <<>> THEN <<>>
    ELSE IF Head(str) = what THEN Tail(str)
    ELSE <<Head(str)>> \o ReplaceFirst(Tail(str), what)

\* Faulty variant: a snoozed notification stays in the feed
handleNotificationActionKeep(s, notification, action) ==
    IF action = "view_task" /\ notification.taskId # NoTask
    THEN removeNotification(s, notification.id)
    ELSE IF action = "snooze" /\ notification.taskId # NoTask
    THEN snoozeReminder(s, notification.taskId,
                ReplaceFirst(notification.message, PrefixReminder),
                SnoozeMinutes)
    ELSE s

handleNotificationAction(s, notification, action) ==
    IF action = "view_task" /\ notification.taskId # NoTask
    THEN removeNotification(s, notification.id)
    ELSE IF action = "snooze" /\ notification.taskId # NoTask
    THEN removeNotification(
            snoozeReminder(s, notification.taskId,
                ReplaceFirst(notification.message, PrefixReminder),
                SnoozeMinutes),
            notification.id)
    ELSE s

----------------------------------------------------------------------------
(* JavaScript numbers: a timestamp is a number >= 0, NaN, null or          *)
(* undefined; a timestamp given as an ISO string in a file is StringOf(n)  *)

StringOf(n) == 0 - (n + 10)
\* A string that is no date
BadDateString == 0 - 4
IsString(v) == v = BadDateString \/ v <= 0 - 10
\* new Date(string).getTime()
DateParseISO(v) == IF v = BadDateString THEN NaNValue ELSE 0 - (v + 10)

\* ToNumber: null is 0, undefined is NaN
ToNumber(v) ==
    IF v = NullValue THEN 0
    ELSE IF v = Undefined THEN NaNValue
    ELSE v

\* a > b on JavaScript values: false when either side is NaN
Gt(a, b) ==
    /\ ToNumber(a) # NaNValue
    /\ ToNumber(b) # NaNValue
    /\ ToNumber(a) > ToNumber(b)

\* The truthiness of a timestamp: 0, NaN, null and undefined are falsy
Truthy(v) == v > 0 \/ IsString(v)

DayMs == 24 * 60 * 60 * 1000
WeekMs == 7 * DayMs

\* new Date(instant) with setHours(0, 0, 0, 0): the midnight that starts
\* the day of the instant (days of 24 hours, local time taken as UTC)
Midnight(instant) == instant - (instant % DayMs)

\* JSON.parse(JSON.stringify(v)): NaN is written as null
JSONValue(v) == IF v = NaNValue THEN NullValue ELSE v

----------------------------------------------------------------------------
(* The task repository and the activity log *)

\* JSON.stringify of a task and of an activity
JSONTask(t) ==
    [t EXCEPT !.createdAt = JSONValue(@), !.completedAt = JSONValue(@),
              !.reminder = JSONValue(@)]

JSONActivity(a) == [a EXCEPT !.timestamp = JSONValue(@)]

\* Faulty variant: no catch block, the exception of setItem reaches the
\* caller
saveTasksNoCatch(s) ==
    IF s.storage.throws THEN [s EXCEPT !.ret = "threw"]
    ELSE [s EXCEPT !.storage = [@ EXCEPT
        !.tasks = [i \in 1..Len(s.tasks) |-> JSONTask(s.tasks[i])],
        !.tags = s.availableTags,
        !.activities = [i \in 1..Len(s.activities) |->
                            JSONActivity(s.activities[i])],
                                    !.keys = @ \cup {"tasks", "tags",
                                                     "activities"}]]

\* The catch block ignores what setItem throws
saveTasks(s) ==
    IF s.storage.throws THEN s
    ELSE [s EXCEPT !.storage = [@ EXCEPT
        !.tasks = [i \in 1..Len(s.tasks) |-> JSONTask(s.tasks[i])],
        !.tags = s.availableTags,
        !.activities = [i \in 1..Len(s.activities) |->
                            JSONActivity(s.activities[i])],
                                    !.keys = @ \cup {"tasks", "tags",
                                                     "activities"}]]

clearAllStorage(s) ==
    IF s.storage.throws THEN s
    ELSE [s EXCEPT !.storage = [@ EXCEPT !.tasks = <<>>, !.tags = <<>>,
                                         !.activities = <<>>,
                                         !.keys = @ \ {"tasks", "tags",
                                                       "activities"}]]

\* Faulty variant: the log is not truncated
addActivityNoLimit(s, type, taskId) ==
    saveTasks([s EXCEPT
        !.nextUid = @ + 1,
        !.activities = <<[id |-> s.nextUid, type |-> type, taskId |-> taskId,
                          timestamp |-> s.now]>> \o @])

addActivity(s, type, taskId) ==
    LET activity == [id |-> s.nextUid, type |-> type, taskId |-> taskId,
                     timestamp |-> s.now]
        unshifted == <<activity>> \o s.activities
    IN  saveTasks([s EXCEPT
            !.nextUid = @ + 1,
            !.activities = IF Len(unshifted) > MAX_ACTIVITIES
                           THEN Slice(unshifted, MAX_ACTIVITIES)
                           ELSE unshifted])

\* The comparator (a, b) => b[key] - a[key] is positive; a NaN result
\* counts as 0
ComparesAfter(a, b, key) == Gt(b[key], a[key])

\* Array.prototype.sort, stable: x goes behind the entries that do not
\* compare after it
RECURSIVE InsertSorted(_, _, _)
InsertSorted(sorted, x, key) ==
    IF sorted = <<>> THEN <<x>>
    ELSE LET last == sorted[Len(sorted)]
         IN  IF ComparesAfter(last, x, key)
             THEN Append(InsertSorted(SubSeq(sorted, 1, Len(sorted) - 1), x,
                                      key),
                         last)
             ELSE Append(sorted, x)

RECURSIVE SortDescending(_, _)
SortDescending(seq, key) ==
    IF seq = <<>> THEN <<>>
    ELSE InsertSorted(SortDescending(SubSeq(seq, 1, Len(seq) - 1), key),
                      seq[Len(seq)], key)

SortTasks(seq) == SortDescending(seq, "createdAt")

\* visibleTasks() returns state.tasks itself, sorted in place, when no
\* filter makes a copy of it (no search query, tag filter or selected tag
\* is set in this model)
FilterCopies(f) == f \in {"active", "done", "recent", "old"}

\* Faulty variant: a task created exactly 24 hours ago counts as recent
visibleTasksInclusive(s) ==
    LET Active(t) == ~t.done
        Done(t) == t.done
        Recent(t) == ~Gt(s.now - DayMs, t.createdAt)
        Old(t) == Gt(s.now - WeekMs, t.createdAt)
        filtered == CASE s.filter = "active" -> SelectSeq(s.tasks, Active)
                      [] s.filter = "done" -> SelectSeq(s.tasks, Done)
                      [] s.filter = "recent" -> SelectSeq(s.tasks, Recent)
                      [] s.filter = "old" -> SelectSeq(s.tasks, Old)
                      [] OTHER -> s.tasks
    IN  SortTasks(filtered)

\* visibleTasks() with no search query, tag filter or selected tag
visibleTasks(s) ==
    LET Active(t) == ~t.done
        Done(t) == t.done
        \* t.createdAt > oneDayAgo
        Recent(t) == Gt(t.createdAt, s.now - DayMs)
        \* t.createdAt < oneWeekAgo
        Old(t) == Gt(s.now - WeekMs, t.createdAt)
        filtered == CASE s.filter = "active" -> SelectSeq(s.tasks, Active)
                      [] s.filter = "done" -> SelectSeq(s.tasks, Done)
                      [] s.filter = "recent" -> SelectSeq(s.tasks, Recent)
                      [] s.filter = "old" -> SelectSeq(s.tasks, Old)
                      [] OTHER -> s.tasks
    IN  SortTasks(filtered)

\* Faulty variant: render does not save
renderNoSave(s) ==
    IF FilterCopies(s.filter) THEN s ELSE [s EXCEPT !.tasks = SortTasks(@)]

render(s) ==
    saveTasks(IF FilterCopies(s.filter) THEN s
              ELSE [s EXCEPT !.tasks = SortTasks(@)])

\* loadTasks, loadTags, loadActivities: what the key holds, or the default
\* when the key is absent
loadTasks(s) ==
    IF "tasks" \in s.storage.keys THEN s.storage.tasks ELSE <<>>

loadTags(s) ==
    IF "tags" \in s.storage.keys THEN s.storage.tags ELSE DefaultTags

loadActivities(s) ==
    IF "activities" \in s.storage.keys THEN s.storage.activities ELSE <<>>

\* loadNotifications of the notification manager
loadNotifications(s) ==
    IF "notifications" \in s.storage.keys THEN s.storage.notifications
    ELSE <<>>

\* A page load: the module state of a new session, initialize() of the
\* notification manager, then initializeApp(), which empties the storage
\* before it loads from it
initializeApp(s) ==
    LET session == [s EXCEPT !.tasks = <<>>, !.activities = <<>>,
                             !.availableTags = DefaultTags, !.filter = "all",
                             !.notifications = loadNotifications(s),
                             !.activeReminders = EmptyMap, !.timers = {},
                             !.dialog = NoDialog]
        cleared == clearAllStorage(session)
    IN  render([cleared EXCEPT !.tasks = loadTasks(cleared),
                               !.availableTags = loadTags(cleared),
                               !.activities = loadActivities(cleared)])

\* String.prototype.trim
RECURSIVE TrimLeft(_)
TrimLeft(str) ==
    IF str # <<>> /\ Head(str) = " " THEN TrimLeft(Tail(str)) ELSE str

RECURSIVE TrimRight(_)
TrimRight(str) ==
    IF str # <<>> /\ str[Len(str)] = " "
    THEN TrimRight(SubSeq(str, 1, Len(str) - 1))
    ELSE str

Trim(str) == TrimRight(TrimLeft(str))

\* input is the instant entered in the reminder fields, Undefined when a
\* field is empty
getReminderDatetime(s, input) ==
    IF input = Undefined THEN NullValue
    ELSE IF input <= s.now THEN NullValue
    ELSE input

\* Faulty variant: the title is not checked after the trim
addTaskUnchecked(s, title, reminderInput) ==
    LET trimmed == Trim(title)
        id == s.nextUid
        newTask == [id |-> id, title |-> trimmed, done |-> FALSE,
                    createdAt |-> s.now, completedAt |-> Undefined,
                    reminder |-> Undefined]
        s3 == [s EXCEPT !.nextUid = @ + 1, !.tasks = <<newTask>> \o @]
    IN  render(addActivity(s3, "create", id))

addTask(s, title, reminderInput) ==
    LET trimmed == Trim(title)
        reminderDatetime == getReminderDatetime(s, reminderInput)
        id == s.nextUid
        newTask == [id |-> id, title |-> trimmed, done |-> FALSE,
                    createdAt |-> s.now, completedAt |-> Undefined,
                    reminder |-> IF Truthy(reminderDatetime)
                                 THEN reminderDatetime ELSE Undefined]
        s1 == [s EXCEPT !.nextUid = @ + 1]
        s2 == IF Truthy(reminderDatetime)
              THEN scheduleReminder(s1, id, trimmed, reminderDatetime)
              ELSE s1
        s3 == [s2 EXCEPT !.tasks = <<newTask>> \o @]
    IN  IF trimmed = <<>> THEN s
        ELSE render(addActivity(s3, "create", id))

\* Faulty variant: completing a task leaves its reminder pending
toggleEffectsNoCancel(s, t) ==
    LET newDone == ~t.done
        s1 == addActivity(s, IF newDone THEN "complete" ELSE "uncomplete",
                          t.id)
    IN  IF newDone
        THEN createTaskCompletedNotification(s1, t.title)
        ELSE IF t.reminder # Undefined /\ Gt(t.reminder, s1.now)
        THEN scheduleReminder(s1, t.id, t.title, t.reminder)
        ELSE s1

\* The side effects of the callback of state.tasks.map on the task toggled
toggleEffects(s, t) ==
    LET newDone == ~t.done
        s1 == addActivity(s, IF newDone THEN "complete" ELSE "uncomplete",
                          t.id)
    IN  IF newDone
        THEN createTaskCompletedNotification(
                IF t.reminder # Undefined THEN cancelReminder(s1, t.id)
                ELSE s1,
                t.title)
        ELSE IF t.reminder # Undefined /\ Gt(t.reminder, s1.now)
        THEN scheduleReminder(s1, t.id, t.title, t.reminder)
        ELSE s1

\* The task the callback returns
toggled(t, at) ==
    [t EXCEPT !.done = ~t.done,
              !.completedAt = IF ~t.done THEN at ELSE Undefined]

\* state.tasks.map(...): state.tasks is the old array while the callbacks run
RECURSIVE toggleMap(_, _, _, _)
toggleMap(s, id, i, mapped) ==
    IF i > Len(s.tasks) THEN [s EXCEPT !.tasks = mapped]
    ELSE LET t == s.tasks[i]
         IN  IF t.id = id
             THEN toggleMap(toggleEffects(s, t), id, i + 1,
                            Append(mapped, toggled(t, s.now)))
             ELSE toggleMap(s, id, i + 1, Append(mapped, t))

toggleTask(s, id) == render(toggleMap(s, id, 1, <<>>))

removeTask(s, id) ==
    LET Other(t) == t.id # id
        found == \E i \in 1..Len(s.tasks) : s.tasks[i].id = id
        s1 == IF found THEN addActivity(s, "delete", id) ELSE s
    IN  render([s1 EXCEPT !.tasks = SelectSeq(@, Other)])

clearDone(s) ==
    LET IsDone(t) == t.done
        NotDone(t) == ~t.done
        doneCount == Len(SelectSeq(s.tasks, IsDone))
        s1 == IF doneCount > 0 THEN addActivity(s, "clear_done", NoTask)
              ELSE s
    IN  render([s1 EXCEPT !.tasks = SelectSeq(@, NotDone)])

setFilter(s, f) == render([s EXCEPT !.filter = f])

\* The callback of editTaskTitle once the input dialog is confirmed with
\* a non-empty value; id is the id of the task found when the dialog opened
editTaskTitleConfirmed(s, id, value) ==
    LET trimmed == Trim(value)
        s1 == addActivity(s, "edit", id)
    IN  IF trimmed = <<>> THEN s
        ELSE render([s1 EXCEPT !.tasks =
                [i \in 1..Len(@) |->
                    IF @[i].id = id THEN [@[i] EXCEPT !.title = trimmed]
                    ELSE @[i]]])

\* The callback of resetAll once the dialog is confirmed
resetAllConfirmed(s) ==
    LET taskCount == Len(s.tasks)
        s1 == IF taskCount > 0 THEN addActivity(s, "reset_all", NoTask)
              ELSE s
    IN  render(clearAllStorage([s1 EXCEPT !.tasks = <<>>]))

\* The callback of clearHistory once the dialog is confirmed
clearHistoryConfirmed(s) == saveTasks([s EXCEPT !.activities = <<>>])

----------------------------------------------------------------------------
(* Export and import as JSON *)

\* Faulty variant: the export is logged before the snapshot is taken
exportToJSONLogFirst(s) ==
    LET s1 == addActivity(s, "export", NoTask)
    IN  [s1 EXCEPT !.jsonFile =
            [hasTasks |-> TRUE,
             tasks |-> [i \in 1..Len(s1.tasks) |-> JSONTask(s1.tasks[i])],
             hasTags |-> TRUE, availableTags |-> s1.availableTags,
             hasActivities |-> TRUE,
             activities |-> [i \in 1..Len(s1.activities) |->
                                JSONActivity(s1.activities[i])]]]

exportToJSON(s) ==
    LET exportData ==
            [hasTasks |-> TRUE,
             tasks |-> [i \in 1..Len(s.tasks) |-> JSONTask(s.tasks[i])],
             hasTags |-> TRUE, availableTags |-> s.availableTags,
             hasActivities |-> TRUE,
             activities |-> [i \in 1..Len(s.activities) |->
                                JSONActivity(s.activities[i])]]
    IN  addActivity([s EXCEPT !.jsonFile = exportData], "export", NoTask)

\* importFromJSON up to the confirmation dialog. The function is async:
\* its throw on a file without a tasks array rejects the promise it returns
importFromJSON(s, data) ==
    IF ~data.hasTasks THEN [s EXCEPT !.ret = "rejected"]
    ELSE [s EXCEPT !.dialog = [kind |-> "importJSON", id |-> NoTask,
                               file |-> data]]

\* The task built from a task of the file
importedTask(task) ==
    [task EXCEPT
        !.createdAt = IF IsString(@) THEN DateParseISO(@) ELSE @,
        !.completedAt = IF Truthy(@)
                        THEN (IF IsString(@) THEN DateParseISO(@) ELSE @)
                        ELSE Undefined]

importedActivity(activity) ==
    [activity EXCEPT
        !.timestamp = IF IsString(@) THEN DateParseISO(@) ELSE @]

\* importFromJSON after the user confirmed the dialog
importFromJSONConfirmed(s, data) ==
    LET s1 == [s EXCEPT !.tasks = [i \in 1..Len(data.tasks) |->
                                        importedTask(data.tasks[i])]]
        s2 == IF data.hasTags
              THEN [s1 EXCEPT !.availableTags = data.availableTags]
              ELSE s1
        s3 == IF data.hasActivities
              THEN [s2 EXCEPT !.activities =
                        [i \in 1..Len(data.activities) |->
                            importedActivity(data.activities[i])]]
              ELSE s2
    IN  addActivity(render(saveTasks(s3)), "import", NoTask)

----------------------------------------------------------------------------
(* Export and import as CSV. A string is a sequence of atoms: the          *)
(* characters the code looks at (quote, comma, space, line feed) and       *)
(* words without any of them                                               *)

Quote == "\""
Comma == ","
Space == " "
LineFeed == "\n"

RECURSIVE Join(_, _)
Join(strings, sep) ==
    IF strings = <<>> THEN <<>>
    ELSE IF Len(strings) = 1 THEN strings[1]
    ELSE strings[1] \o <<sep>> \o Join(Tail(strings), sep)

\* String.prototype.split on a separator of one character
RECURSIVE Split(_, _)
Split(str, sep) ==
    IF \A i \in 1..Len(str) : str[i] # sep THEN <<str>>
    ELSE LET first == CHOOSE i \in 1..Len(str) :
                        /\ str[i] = sep
                        /\ \A j \in 1..(i - 1) : str[j] # sep
         IN  <<SubSeq(str, 1, first - 1)>>
                \o Split(SubSeq(str, first + 1, Len(str)), sep)

\* replace(/"/g, '""')
RECURSIVE DoubleQuotes(_)
DoubleQuotes(str) ==
    IF str = <<>> THEN <<>>
    ELSE (IF Head(str) = Quote THEN <<Quote, Quote>> ELSE <<Head(str)>>)
            \o DoubleQuotes(Tail(str))

\* replace(/^"|"$/g, '')
StripOuterQuotes(str) ==
    LET front == IF str # <<>> /\ Head(str) = Quote THEN Tail(str) ELSE str
    IN  IF front # <<>> /\ front[Len(front)] = Quote
        THEN SubSeq(front, 1, Len(front) - 1)
        ELSE front

\* Date.prototype.toLocaleString(): the date and the time to the second,
\* with a comma between them in the locales that write one
LocaleString(instant, commaLocale) ==
    <<"D" \o ToString(instant \div DayMs)>>
        \o (IF commaLocale THEN <<Comma>> ELSE <<>>)
        \o <<Space, "T" \o ToString((instant % DayMs) \div 1000)>>

\* new Date(str).getTime() on a string that is not in the ISO format: what
\* the engine reads of the local format is up to the engine (parses); a
\* date alone is read as its midnight
DateParseLocal(str, from, parses) ==
    IF ~parses THEN NaNValue
    ELSE IF \E instant \in from : LocaleString(instant, FALSE) = str
    THEN LET instant == CHOOSE x \in from : LocaleString(x, FALSE) = str
         IN  instant - (instant % 1000)
    ELSE IF \E instant \in from : <<LocaleString(instant, FALSE)[1]>> = str
    THEN LET instant == CHOOSE x \in from :
                            <<LocaleString(x, FALSE)[1]>> = str
         IN  Midnight(instant)
    ELSE NaNValue

\* The identifier of a task as a string, and back
IdString(id) == <<"#" \o ToString(id)>>
IdOfString(str, ids) == CHOOSE id \in ids : IdString(id) = str

CSVHeader ==
    Join(<<(<<"ID">>), (<<"Título">>), (<<"Estado">>), (<<"Creada">>),
           (<<"Completada">>), (<<"Etiquetas">>)>>, Comma)

\* The row of a task; the tasks of the model carry no tags
CSVRow(task, commaLocale) ==
    Join(<<IdString(task.id),
           <<Quote>> \o DoubleQuotes(task.title) \o <<Quote>>,
           IF task.done THEN <<"Completada">> ELSE <<"Activa">>,
           LocaleString(task.createdAt, commaLocale),
           IF Truthy(task.completedAt)
           THEN LocaleString(task.completedAt, commaLocale) ELSE <<>>,
           <<Quote, Quote>>>>, Comma)

exportToCSV(s, commaLocale) ==
    LET rows == <<CSVHeader>> \o [i \in 1..Len(s.tasks) |->
                                    CSVRow(s.tasks[i], commaLocale)]
    IN  addActivity([s EXCEPT !.csvFile = Join(rows, LineFeed)], "export",
                    NoTask)

\* The values of a line: split at the commas, trimmed, outer quotes taken
\* off
CSVValues(line) ==
    LET pieces == Split(line, Comma)
    IN  [i \in 1..Len(pieces) |-> StripOuterQuotes(Trim(pieces[i]))]

DefaultTitle == <<"Tarea", Space, "sin", Space, "título">>

\* The task of a line of at least 3 values; uidValue is what uid() gives
CSVTask(values, uidValue, at, ids, from, parses) ==
    [id |-> IF values[1] # <<>> THEN IdOfString(values[1], ids)
            ELSE uidValue,
     title |-> IF values[2] # <<>> THEN values[2] ELSE DefaultTitle,
     done |-> \E i \in 1..Len(values[3]) :
                    values[3][i] \in {"Completada", "completada"},
     createdAt |-> IF Len(values) >= 4 /\ values[4] # <<>>
                   THEN DateParseLocal(values[4], from, parses) ELSE at,
     completedAt |-> IF Len(values) >= 5 /\ values[5] # <<>>
                     THEN DateParseLocal(values[5], from, parses)
                     ELSE Undefined,
     reminder |-> Undefined]

\* The loop of importFromCSV over the lines from the i-th on; s carries
\* the uid() calls
RECURSIVE CSVTasks(_, _, _, _, _, _)
CSVTasks(s, lines, i, ids, from, parses) ==
    IF i > Len(lines) THEN [state |-> s, tasks |-> <<>>]
    ELSE LET line == Trim(lines[i])
             values == CSVValues(line)
         IN  IF line = <<>> \/ Len(values) < 3
             THEN CSVTasks(s, lines, i + 1, ids, from, parses)
             ELSE LET s1 == IF values[1] = <<>>
                            THEN [s EXCEPT !.nextUid = @ + 1] ELSE s
                      rest == CSVTasks(s1, lines, i + 1, ids, from, parses)
                  IN  [state |-> rest.state,
                       tasks |-> <<CSVTask(values, s.nextUid, s.now, ids,
                                           from, parses)>> \o rest.tasks]

\* Faulty variant: the parsed rows replace the tasks before the dialog
importFromCSVEager(s, content, ids, from, parses) ==
    LET lines == Split(content, LineFeed)
        parsed == CSVTasks(s, lines, 2, ids, from, parses)
    IN  IF Len(Split(lines[1], Comma)) < 3 THEN s
        ELSE [parsed.state EXCEPT
                !.tasks = parsed.tasks,
                !.dialog = [kind |-> "importCSV", id |-> NoTask,
                            file |-> [EmptyFile EXCEPT
                                        !.tasks = parsed.tasks]]]

\* importFromCSV up to the confirmation dialog. The function is async:
\* its throw on a header of fewer than 3 columns rejects the promise it
\* returns
importFromCSV(s, content, ids, from, parses) ==
    LET lines == Split(content, LineFeed)
        parsed == CSVTasks(s, lines, 2, ids, from, parses)
    IN  IF Len(Split(lines[1], Comma)) < 3 THEN [s EXCEPT !.ret = "rejected"]
        ELSE [parsed.state EXCEPT
                !.dialog = [kind |-> "importCSV", id |-> NoTask,
                            file |-> [EmptyFile EXCEPT
                                        !.tasks = parsed.tasks]]]

\* reader.onload of handleFileImport: the import functions are called
\* without await inside the try block, so the catch block sees what they
\* throw before their promise exists, which is nothing. ret is what the
\* handler leaves behind: "showError" for a message on the screen,
\* "rejected" for a rejected promise that no one handles
handleFileImport(s, extension, content, ids, from, parses) ==
    IF extension = "json" THEN importFromJSON(s, content)
    ELSE IF extension = "csv"
    THEN importFromCSV(s, content, ids, from, parses)
    ELSE [s EXCEPT !.ret = "showError"]

\* importFromCSV after the user confirmed the dialog
importFromCSVConfirmed(s, parsedTasks) ==
    addActivity(render(saveTasks([s EXCEPT !.tasks = parsedTasks])),
                "import", NoTask)

----------------------------------------------------------------------------
(* The statistics engine of the user profile *)

Count(seq, Keep) == Cardinality({i \in 1..Len(seq) : Keep[i]})

\* Math.round of the rational numerator / denominator
Round(numerator, denominator) ==
    (2 * numerator + denominator) \div (2 * denominator)

\* Faulty variant: the bonus for recent completions is not capped
calculateProductivityScoreNoCap(list, at) ==
    IF Len(list) = 0 THEN 0
    ELSE LET completedTasks ==
                Count(list, [i \in 1..Len(list) |-> list[i].done])
             totalTasks == Len(list)
             recentActivity ==
                Count(list, [i \in 1..Len(list) |->
                                Gt(list[i].createdAt, at - WeekMs)])
             recentCompletion ==
                Count(list, [i \in 1..Len(list) |->
                                /\ Truthy(list[i].completedAt)
                                /\ Gt(list[i].completedAt, at - WeekMs)])
         IN  Min(100, Round(completedTasks * 60
                                + Min(recentActivity * 5, 30) * totalTasks
                                + recentCompletion * 10 * totalTasks,
                            totalTasks))

\* completionRate * 0.6 is completedTasks * 60 / totalTasks; the sum is
\* rounded as a rational
calculateProductivityScore(list, at) ==
    IF Len(list) = 0 THEN 0
    ELSE LET completedTasks ==
                Count(list, [i \in 1..Len(list) |-> list[i].done])
             totalTasks == Len(list)
             recentActivity ==
                Count(list, [i \in 1..Len(list) |->
                                Gt(list[i].createdAt, at - WeekMs)])
             recentCompletion ==
                Count(list, [i \in 1..Len(list) |->
                                /\ Truthy(list[i].completedAt)
                                /\ Gt(list[i].completedAt, at - WeekMs)])
         IN  Min(100, Round(completedTasks * 60
                                + Min(recentActivity * 5, 30) * totalTasks
                                + Min(recentCompletion * 10, 10) * totalTasks,
                            totalTasks))

\* The loop of calculateStreakDays from the i-th completed task on
RECURSIVE streakLoop(_, _, _, _)
streakLoop(completedTasks, i, streak, currentDate) ==
    IF i > Len(completedTasks) THEN streak
    ELSE LET taskDate == Midnight(completedTasks[i].completedAt)
             diffDays == (currentDate - taskDate) \div DayMs
         IN  IF diffDays = streak
             THEN streakLoop(completedTasks, i + 1, streak + 1,
                             currentDate - DayMs)
             ELSE IF diffDays > streak THEN streak
             ELSE streakLoop(completedTasks, i + 1, streak, currentDate)

calculateStreakDays(list, at) ==
    LET HasCompletedAt(t) == Truthy(t.completedAt)
        completedTasks ==
            SortDescending(SelectSeq(list, HasCompletedAt), "completedAt")
    IN  IF Len(list) = 0 THEN 0
        ELSE IF Len(completedTasks) = 0 THEN 0
        ELSE streakLoop(completedTasks, 1, 0, Midnight(at))

\* getDetailedStatistics(): the statistics computed from the tasks in
\* storage
getDetailedStatistics(s) ==
    [s EXCEPT !.stats =
        [productivityScore |-> calculateProductivityScore(s.storage.tasks,
                                                          s.now),
         streakDays |-> calculateStreakDays(s.storage.tasks, s.now)]]

----------------------------------------------------------------------------
(* Time and timers *)

\* Time passes: by one millisecond, or up to the instant a timer is due
Advance ==
    \E d \in {1} \cup {t.due - now : t \in {u \in timers : u.due > now}} :
        /\ d = 1 => now + d <= MaxTime
        /\ Becomes([St EXCEPT !.now = now + d], "advance", 0, d, 0)

\* The event loop runs a timer callback whose delay has elapsed
TimerFire ==
    \E t \in timers :
        /\ t.taskId # NoTask
        /\ now >= t.due
        /\ nextNotif <= MaxNotifs
        /\ Becomes(reminderCallback([St EXCEPT !.timers = timers \ {t}], t),
                   "timer", t.taskId, t.due, Len(notifications))

----------------------------------------------------------------------------
(* The notification manager driven through its public methods, the buttons *)
(* of the feed and the timers                                              *)

MgrTitles == {TitleA}

\* A feed of n notifications that an earlier session left in storage
StoredFeed(n) ==
    [i \in 1..n |->
        [id |-> 0 - i, type |-> "system", message |-> <<"old">>,
         timestamp |-> 0, read |-> (i > 1), taskId |-> NoTask,
         actions |-> <<>>]]

NoOp == [op |-> "init", id |-> 0, arg |-> 0, ret |-> "void", pre |-> 0]

\* initialize(): the feed is the one found in storage
MgrInit(storedFeeds) ==
    /\ now = 1
    /\ tasks = <<>>
    /\ activities = <<>>
    /\ availableTags = DefaultTags
    /\ filter = "all"
    /\ notifications \in storedFeeds
    /\ activeReminders = EmptyMap
    /\ timers = {}
    /\ nextUid = 1
    /\ nextNotif = 1
    /\ nextTimer = 1
    /\ storage = [throws |-> FALSE,
                  keys |-> IF notifications = <<>> THEN {}
                            ELSE {"notifications"},
                  tasks |-> <<>>, tags |-> <<>>, activities |-> <<>>,
                  notifications |-> notifications,
                  users |-> {}, loginAttempts |-> EmptyMap,
                  session |-> NoSession]
    /\ dialog = NoDialog
    /\ jsonFile = EmptyFile
    /\ csvFile = <<>>
    /\ stats = InitialStatistics
    /\ lastOp = NoOp

Pending(taskId) == IF taskId \in DOMAIN activeReminders THEN 1 ELSE 0

MgrSchedule(taskIds, datetimes) ==
    \E taskId \in taskIds, title \in MgrTitles, datetime \in datetimes :
        /\ nextTimer <= MaxTimers
        /\ Becomes(scheduleReminder(St, taskId, title, datetime),
                   "scheduleReminder", taskId, datetime, Pending(taskId))

MgrCancel ==
    \E taskId \in 1..MgrTaskIds :
        Becomes(cancelReminder(St, taskId), "cancelReminder", taskId, 0,
                Pending(taskId))

MgrSnooze ==
    \E taskId \in 1..MgrTaskIds, title \in MgrTitles,
       minutes \in {SnoozeMinutes, 0} :
        /\ nextTimer <= MaxTimers
        /\ Becomes(snoozeReminder(St, taskId, title, minutes),
                   "snoozeReminder", taskId, minutes, Pending(taskId))

MgrSystemNotification ==
    /\ nextNotif <= MaxNotifs
    /\ Becomes(createSystemNotification(St, <<"msg">>, "system"),
               "createSystemNotification", 0, 0, Len(notifications))

MgrTaskCompletedNotification ==
    /\ nextNotif <= MaxNotifs
    /\ Becomes(createTaskCompletedNotification(St, TitleA),
               "createTaskCompletedNotification", 0, 0, Len(notifications))

\* markAllAsRead, as one step; DropdownClick and DropdownCallback keep the
\* click on the dropdown and its delayed callback apart
MarkAllAsRead ==
    Becomes(markAllAsRead(St), "markAllAsRead", 0, 0, Len(notifications))

\* The button clear-all-notifications
ClearAllNotifications ==
    Becomes(clearAllNotifications(St), "clearAllNotifications", 0, 0,
            Len(notifications))

\* A click on an action button of a notification of the feed
NotificationAction ==
    \E i \in 1..Len(notifications) :
        \E k \in 1..Len(notifications[i].actions) :
            /\ nextTimer <= MaxTimers
            /\ Becomes(handleNotificationAction(St, notifications[i],
                            notifications[i].actions[k]),
                       notifications[i].actions[k], notifications[i].taskId,
                       notifications[i].id, Len(notifications))

(* The reminder scheduler: every handler that writes activeReminders or    *)
(* the timers                                                              *)

SchedInit == MgrInit({<<>>})

SchedNext ==
    \/ MgrSchedule(1..MgrTaskIds, {now - 1, now, now + 1})
    \/ MgrCancel
    \/ MgrSnooze
    \/ NotificationAction
    \/ TimerFire
    \/ Advance

SpecSched == SchedInit /\ [][SchedNext]_vars

(* The timers of the reminders of one task, reminders far ahead included   *)

TimersNext ==
    \/ MgrSchedule({1}, {now + 1, now + 2, FarFuture})
    \/ MgrSystemNotification
    \/ TimerFire
    \/ Advance

SpecTimers == SchedInit /\ [][TimersNext]_vars

(* The dropdown of the feed: its click handler leaves markAllAsRead to a   *)
(* timer, and the timers of the reminders run beside it                    *)

DropdownDelay == 500

\* The click on notificationsDropdown: setTimeout(() => markAllAsRead(), 500)
DropdownClick ==
    /\ nextTimer <= MaxTimers
    /\ Becomes([St EXCEPT
                    !.timers = timers \cup
                        {[handle |-> nextTimer, taskId |-> NoTask,
                          taskTitle |-> <<>>, due |-> now + DropdownDelay]},
                    !.nextTimer = nextTimer + 1],
               "dropdownClick", 0, now, Len(notifications))

\* The event loop runs the callback the click left; arg is the instant of
\* the click
DropdownCallback ==
    \E t \in timers :
        /\ t.taskId = NoTask
        /\ now >= t.due
        /\ Becomes(markAllAsRead([St EXCEPT !.timers = timers \ {t}]),
                   "dropdownCallback", 0, t.due - DropdownDelay,
                   Len(notifications))

DropdownNext ==
    \/ DropdownClick
    \/ DropdownCallback
    \/ MgrSchedule({1}, {now + 1, now + DropdownDelay + 1})
    \/ MgrSystemNotification
    \/ TimerFire
    \/ Advance

SpecDropdown == SchedInit /\ [][DropdownNext]_vars

(* The notification feed: every handler that writes notifications, on the  *)
(* feed an earlier session stored                                          *)

FeedInit == MgrInit({<<>>, StoredFeed(MAX_NOTIFICATIONS - 1)})

FeedNext ==
    \/ MgrSystemNotification
    \/ MgrTaskCompletedNotification
    \/ MarkAllAsRead
    \/ ClearAllNotifications
    \/ MgrSchedule({1}, {now + 1})
    \/ NotificationAction
    \/ TimerFire
    \/ Advance

SpecFeed == FeedInit /\ [][FeedNext]_vars

(* The application: the handlers of the task list, the dialogs, export and *)
(* import, together with the timers of the reminders                       *)

\* initializeApp() empties the storage before it loads the tasks, the tags
\* and the activities
Init == MgrInit({<<>>})

Idle == dialog.kind = "none"

TaskIds == {tasks[i].id : i \in 1..Len(tasks)}

\* What the user types in the title field
TypedTitles == {TitleA, <<" ">>}

WasDone(id) ==
    IF \E i \in 1..Len(tasks) : tasks[i].id = id /\ tasks[i].done THEN 1
    ELSE 0

\* reminderInputs: the instants the user may enter in the reminder fields
AddTask(reminderInputs) ==
    \E title \in TypedTitles, reminderInput \in reminderInputs :
        /\ Idle
        /\ nextUid <= MaxUid
        /\ Len(tasks) < MaxTasks
        /\ nextTimer <= MaxTimers
        /\ Becomes(addTask(St, title, reminderInput), "addTask", nextUid,
                   reminderInput, Len(activities))

ToggleTask ==
    \E id \in TaskIds :
        /\ Idle
        /\ nextUid <= MaxUid
        /\ nextNotif <= MaxNotifs
        /\ nextTimer <= MaxTimers
        /\ Becomes(toggleTask(St, id), "toggleTask", id, WasDone(id),
                   Len(activities))

RemoveTask ==
    \E id \in TaskIds :
        /\ Idle
        /\ nextUid <= MaxUid
        /\ Becomes(removeTask(St, id), "removeTask", id, 0, Len(activities))

ClearDone ==
    /\ Idle
    /\ nextUid <= MaxUid
    /\ Becomes(clearDone(St), "clearDone", 0, 0, Len(activities))

SetFilter ==
    \E f \in {"all", "active"} :
        /\ Idle
        /\ Becomes(setFilter(St, f), "setFilter", 0, 0, Len(activities))

\* editTaskTitle up to the input dialog
EditTaskTitle ==
    \E id \in TaskIds :
        /\ Idle
        /\ Becomes([St EXCEPT !.dialog = [kind |-> "edit", id |-> id,
                                          file |-> EmptyFile]],
                   "editTaskTitle", id, 0, Len(activities))

\* resetAll and clearHistory up to their confirmation dialog
OpenConfirm ==
    \E kind \in {"resetAll", "clearHistory"} :
        /\ Idle
        /\ Becomes([St EXCEPT !.dialog = [kind |-> kind, id |-> NoTask,
                                          file |-> EmptyFile]],
                   kind, 0, 0, Len(activities))

ExportToJSON ==
    /\ Idle
    /\ nextUid <= MaxUid
    /\ Becomes(exportToJSON(St), "exportToJSON", 0, 0, Len(activities))

\* A file with a completed task that carries no completion date
FileDoneTask ==
    [EmptyFile EXCEPT
        !.tasks = <<[id |-> 0 - 1, title |-> TitleA, done |-> TRUE,
                     createdAt |-> StringOf(1), completedAt |-> Undefined,
                     reminder |-> Undefined]>>]

FileActivity(i) ==
    [id |-> 0 - i, type |-> "create", taskId |-> 0 - 1, timestamp |-> 0]

\* A file with a log of n activities, and a task whose completion date is
\* no date
FileLongLog(n) ==
    [hasTasks |-> TRUE,
     tasks |-> <<[id |-> 0 - 2, title |-> TitleA, done |-> TRUE,
                  createdAt |-> 0, completedAt |-> BadDateString,
                  reminder |-> Undefined]>>,
     hasTags |-> TRUE, availableTags |-> <<"Casa">>,
     hasActivities |-> TRUE, activities |-> [i \in 1..n |-> FileActivity(i)]]

\* The files the user picks: the file of the last export, or a file made
\* by hand
\* A file without a tasks array
FileNoTasks == [EmptyFile EXCEPT !.hasTasks = FALSE]

PickedFiles ==
    {FileDoneTask, FileLongLog(MAX_ACTIVITIES + 1), FileNoTasks}
        \cup (IF jsonFile = EmptyFile THEN {} ELSE {jsonFile})

\* The user picks a .json file; id is 1 for a malformed file
ImportFromJSON ==
    \E file \in PickedFiles :
        /\ Idle
        /\ Becomes(handleFileImport(St, "json", file, {}, {}, FALSE),
                   "importFromJSON", IF file.hasTasks THEN 0 ELSE 1,
                   Len(file.activities), Len(activities))

\* The user picks a file that is neither .json nor .csv
ImportOther ==
    /\ Idle
    /\ Becomes(handleFileImport(St, "txt", <<>>, {}, {}, FALSE),
               "importOther", 0, 0, Len(activities))

\* The user confirms the dialog that is open
DialogConfirm ==
    /\ ~Idle
    /\ nextUid <= MaxUid
    /\ LET s == [St EXCEPT !.dialog = NoDialog]
       IN  Becomes(CASE dialog.kind = "edit" ->
                            editTaskTitleConfirmed(s, dialog.id, <<"B", " ">>)
                     [] dialog.kind = "resetAll" -> resetAllConfirmed(s)
                     [] dialog.kind = "clearHistory" ->
                            clearHistoryConfirmed(s)
                     [] dialog.kind = "importJSON" ->
                            importFromJSONConfirmed(s, dialog.file)
                     [] dialog.kind = "importCSV" ->
                            importFromCSVConfirmed(s, dialog.file.tasks),
                   "confirm", dialog.id, Len(dialog.file.activities),
                   Len(activities))

\* The user cancels the dialog that is open; arg tells whether a timer
\* callback ran just before, while the dialog was open
DialogCancel ==
    /\ ~Idle
    /\ Becomes([St EXCEPT !.dialog = NoDialog], "cancel", dialog.id,
               IF lastOp.op = "timer" THEN 1 ELSE 0, Len(activities))

\* The user reloads the page
Reload ==
    Becomes(initializeApp(St), "reload", 0, 0, Len(tasks))

\* The task list and its reminders
Next ==
    \/ AddTask({Undefined, now, now + 1})
    \/ ToggleTask
    \/ RemoveTask
    \/ ClearDone
    \/ SetFilter
    \/ EditTaskTitle
    \/ DialogConfirm
    \/ DialogCancel
    \/ Reload
    \/ NotificationAction
    \/ TimerFire
    \/ Advance

Spec == Init /\ [][Next]_vars

\* localStorage starts or stops throwing on setItem
StorageThrows ==
    \E throws \in BOOLEAN \ {storage.throws} :
        Becomes([St EXCEPT !.storage = [@ EXCEPT !.throws = throws]],
                "storage", 0, 0, 0)

\* The task list and its reminders over a storage that may refuse writes
StorageNext ==
    \/ AddTask({Undefined, now + 1})
    \/ ToggleTask
    \/ RemoveTask
    \/ StorageThrows
    \/ TimerFire
    \/ Advance

SpecStorage == Init /\ [][StorageNext]_vars

\* The task list and the activity log with export, import, resetAll and
\* clearHistory, at one instant; no task has a reminder
FilesNext ==
    \/ AddTask({Undefined})
    \/ ToggleTask
    \/ RemoveTask
    \/ ClearDone
    \/ SetFilter
    \/ OpenConfirm
    \/ ExportToJSON
    \/ ImportFromJSON
    \/ DialogConfirm
    \/ DialogCancel

SpecFiles == Init /\ [][FilesNext]_vars

(* The task list and the feed over a storage that may refuse writes       *)

PersistNext ==
    \/ AddTask({Undefined, now + 1})
    \/ ToggleTask
    \/ RemoveTask
    \/ NotificationAction
    \/ StorageThrows
    \/ TimerFire
    \/ Advance

SpecPersist == Init /\ [][PersistNext]_vars

(* The task list after the import of a file that this program did not     *)
(* write                                                                  *)

\* A file with a task created at an instant the clock of this session has
\* not reached when it starts
FileAhead ==
    [EmptyFile EXCEPT
        !.tasks = <<[id |-> 0 - 4, title |-> TitleA, done |-> FALSE,
                     createdAt |-> MaxTime, completedAt |-> Undefined,
                     reminder |-> Undefined]>>]

\* A file with two tasks of the same identifier, the open one with a
\* reminder that lies ahead
FileTwins ==
    [EmptyFile EXCEPT
        !.tasks = <<[id |-> 0 - 3, title |-> TitleA, done |-> FALSE,
                     createdAt |-> 1, completedAt |-> Undefined,
                     reminder |-> MaxTime + 1],
                    [id |-> 0 - 3, title |-> TitleA, done |-> TRUE,
                     createdAt |-> 0, completedAt |-> 1,
                     reminder |-> Undefined]>>]

\* The user picks a .json file written by hand or on another machine
ImportHandMade ==
    \E file \in {FileAhead, FileTwins} :
        /\ Idle
        /\ Becomes(handleFileImport(St, "json", file, {}, {}, FALSE),
                   "importFromJSON", 0, 0, Len(activities))

AddNext ==
    \/ AddTask({Undefined, now + 1})
    \/ ToggleTask
    \/ RemoveTask
    \/ SetFilter
    \/ ImportHandMade
    \/ DialogConfirm
    \/ DialogCancel
    \/ TimerFire
    \/ Advance

SpecAdd == Init /\ [][AddNext]_vars

(* The statistics engine on the task lists of the profile page *)

HourMs == 60 * 60 * 1000

\* The instant the statistics are asked for: midday of a day
StatsNow == 10 * DayMs + 12 * HourMs

StatTask(id, done, createdAt, completedAt) ==
    [id |-> id, title |-> TitleA, done |-> done, createdAt |-> createdAt,
     completedAt |-> completedAt, reminder |-> Undefined]

\* a open tasks of this week, b tasks of this week completed this week,
\* c old tasks completed long ago, d old open tasks that carry a completion
\* date of this week
ScoreList(a, b, c, d) ==
    [i \in 1..(a + b + c + d) |->
        IF i <= a
        THEN StatTask(i, FALSE, StatsNow - DayMs, Undefined)
        ELSE IF i <= a + b
        THEN StatTask(i, TRUE, StatsNow - DayMs, StatsNow - HourMs)
        ELSE IF i <= a + b + c
        THEN StatTask(i, TRUE, StatsNow - 9 * DayMs, StatsNow - 8 * DayMs)
        ELSE StatTask(i, FALSE, StatsNow - 9 * DayMs, StatsNow - HourMs)]

Reverse(seq) == [i \in 1..Len(seq) |-> seq[Len(seq) + 1 - i]]

\* One task completed on each day of daysAgo, counted back from today,
\* and a second one on the latest of them when twice holds
StreakList(daysAgo, twice) ==
    LET InDays(g) == g \in daysAgo
        days == SelectSeq([g \in 1..(MaxDaysBack + 1) |-> g - 1], InDays)
        once == [i \in 1..Len(days) |->
                    StatTask(i, TRUE, StatsNow - 9 * DayMs,
                             Midnight(StatsNow) - days[i] * DayMs + HourMs)]
    IN  IF twice /\ days # <<>>
        THEN Append(once, StatTask(Len(days) + 1, TRUE, StatsNow - 9 * DayMs,
                                   once[1].completedAt + HourMs))
        ELSE once

StatsLists ==
    {ScoreList(a, b, c, d) : a, b, c, d \in 0..MaxPerKind}
        \cup {StreakList(daysAgo, twice) :
                    daysAgo \in SUBSET (0..MaxDaysBack), twice \in BOOLEAN}
        \cup {Reverse(StreakList(daysAgo, twice)) :
                    daysAgo \in SUBSET (0..MaxDaysBack), twice \in BOOLEAN}

StatsInit ==
    /\ now = StatsNow
    /\ tasks \in StatsLists
    /\ activities = <<>>
    /\ availableTags = DefaultTags
    /\ filter = "all"
    /\ notifications = <<>>
    /\ activeReminders = EmptyMap
    /\ timers = {}
    /\ nextUid = 1
    /\ nextNotif = 1
    /\ nextTimer = 1
    /\ storage = [throws |-> FALSE,
                  keys |-> {"tasks", "tags", "activities"},
                  tasks |-> [i \in 1..Len(tasks) |-> JSONTask(tasks[i])],
                  tags |-> DefaultTags, activities |-> <<>>,
                  notifications |-> <<>>,
                  users |-> {}, loginAttempts |-> EmptyMap,
                  session |-> NoSession]
    /\ dialog = NoDialog
    /\ jsonFile = EmptyFile
    /\ csvFile = <<>>
    /\ stats = InitialStatistics
    /\ lastOp = NoOp

GetDetailedStatistics ==
    Becomes(getDetailedStatistics(St), "getDetailedStatistics", 0, 0, 0)

StatsNext == GetDetailedStatistics

SpecStats == StatsInit /\ [][StatsNext]_vars

(* The filters of the task list over tasks of several ages *)

\* The instants a task of the list was created at: 8 days, a week, 3 days,
\* a day or an hour before StatsNow, or no date at all
CreatedInstants ==
    {StatsNow - 8 * DayMs, StatsNow - WeekMs, StatsNow - 3 * DayMs,
     StatsNow - DayMs, StatsNow - HourMs, NaNValue}

AgedTask(id, done, createdAt) ==
    StatTask(id, done, createdAt, IF done THEN StatsNow ELSE Undefined)

VisibleLists ==
    UNION {[1..n -> CreatedInstants \X BOOLEAN] : n \in 0..MaxTasks}

VisibleInit ==
    \E ages \in VisibleLists :
        /\ now = StatsNow
        /\ tasks = [i \in 1..Len(ages) |->
                        AgedTask(i, ages[i][2], ages[i][1])]
        /\ activities = <<>>
        /\ availableTags = DefaultTags
        /\ filter = "all"
        /\ notifications = <<>>
        /\ activeReminders = EmptyMap
        /\ timers = {}
        /\ nextUid = 1
        /\ nextNotif = 1
        /\ nextTimer = 1
        /\ storage = [throws |-> FALSE,
                      keys |-> {"tasks", "tags", "activities"},
                      tasks |-> [i \in 1..Len(tasks) |-> JSONTask(tasks[i])],
                      tags |-> DefaultTags, activities |-> <<>>,
                      notifications |-> <<>>,
                      users |-> {}, loginAttempts |-> EmptyMap,
                      session |-> NoSession]
        /\ dialog = NoDialog
        /\ jsonFile = EmptyFile
        /\ csvFile = <<>>
        /\ stats = InitialStatistics
        /\ lastOp = NoOp

\* A click on a filter button: setFilter, whose render() draws the list
\* visibleTasks() returns; ret is that list
ShowFilter ==
    \E f \in {"all", "active", "done", "recent", "old"} :
        LET s == setFilter(St, f)
        IN  Becomes([s EXCEPT !.ret = visibleTasks(s)], "visibleTasks", 0, 0,
                    Len(tasks))

VisibleNext == ShowFilter

SpecVisible == VisibleInit /\ [][VisibleNext]_vars

----------------------------------------------------------------------------
(* AuthService: login and the record of failed attempts *)

maxLoginAttempts == 5

\* The account of the model and its password; an email is a pair of its
\* lower-case form and whether it was typed in upper case
AnaEmail == "ana@x.io"
GoodPassword == "Secreta1!"

ToLowerCase(email) == email[1]

\* hashPassword: the hash and the length of the password
hashPassword(password) == <<"hashed", password>>

verifyPassword(password, hashedPassword) ==
    hashPassword(password) = hashedPassword

\* getLoginAttempts()[email] || []
UserAttempts(s, email) ==
    IF email \in DOMAIN s.storage.loginAttempts
    THEN s.storage.loginAttempts[email]
    ELSE <<>>

\* saveLoginAttempts: the catch block logs what setItem throws
saveLoginAttempts(s, attempts) ==
    IF s.storage.throws THEN s
    ELSE [s EXCEPT !.storage = [@ EXCEPT !.loginAttempts = attempts]]

\* Array.prototype.slice(-n)
LastOf(seq, n) ==
    IF Len(seq) <= n THEN seq ELSE SubSeq(seq, Len(seq) - n + 1, Len(seq))

recordFailedAttempt(s, email) ==
    saveLoginAttempts(s,
        MapSet(s.storage.loginAttempts, email,
               LastOf(Append(UserAttempts(s, email), s.now),
                      maxLoginAttempts)))

clearLoginAttempts(s, email) ==
    saveLoginAttempts(s, MapDelete(s.storage.loginAttempts, email))

\* Faulty variant: blocked only beyond maxLoginAttempts recorded attempts
isUserBlockedBeyond(s, email) ==
    LET userAttempts == UserAttempts(s, email)
        oneHourAgo == s.now - HourMs
        Recent(timestamp) == timestamp > oneHourAgo
    IN  IF Len(userAttempts) <= maxLoginAttempts THEN FALSE
        ELSE Len(SelectSeq(userAttempts, Recent)) > maxLoginAttempts

isUserBlocked(s, email) ==
    LET userAttempts == UserAttempts(s, email)
        oneHourAgo == s.now - HourMs
        Recent(timestamp) == timestamp > oneHourAgo
    IN  IF Len(userAttempts) < maxLoginAttempts THEN FALSE
        ELSE Len(SelectSeq(userAttempts, Recent)) >= maxLoginAttempts

\* getUserByEmail: the users of that email, compared in lower case
UsersByEmail(s, email) == {u \in s.storage.users : u.email = email}

sessionDuration == 24 * 60 * 60 * 1000

\* saveSession: the catch block logs what setItem throws
saveSession(s, session) ==
    IF s.storage.throws THEN s
    ELSE [s EXCEPT !.storage = [@ EXCEPT !.session = session]]

createSession(s, user, rememberMe) ==
    LET duration == IF rememberMe THEN sessionDuration * 7
                    ELSE sessionDuration
    IN  saveSession(s, [email |-> user.email, createdAt |-> s.now,
                        expiresAt |-> s.now + duration, status |-> "active"])

isSessionExpired(s, session) ==
    s.now > session.expiresAt \/ session.status # "active"

clearSession(s) == [s EXCEPT !.storage = [@ EXCEPT !.session = NoSession]]

\* Faulty variant: an expired session is refused but its record stays
getCurrentSessionKeep(s) ==
    LET session == s.storage.session
    IN  IF session = NoSession THEN [state |-> s, session |-> NoSession]
        ELSE IF isSessionExpired(s, session)
        THEN [state |-> s, session |-> NoSession]
        ELSE [state |-> s, session |-> session]

\* getCurrentSession: the state it leaves and the session it returns,
\* NoSession for null
getCurrentSession(s) ==
    LET session == s.storage.session
    IN  IF session = NoSession THEN [state |-> s, session |-> NoSession]
        ELSE IF isSessionExpired(s, session)
        THEN [state |-> clearSession(s), session |-> NoSession]
        ELSE [state |-> s, session |-> session]

\* AuthService.getCurrentUser and isAuthenticated: ret is the email of the
\* user, "null" for none
getCurrentUser(s) ==
    LET got == getCurrentSession(s)
    IN  [got.state EXCEPT !.ret = IF got.session = NoSession THEN "null"
                                  ELSE got.session.email]

logout(s) == [clearSession(getCurrentSession(s).state) EXCEPT !.ret = "true"]

\* SessionManager.renewSession on the session AuthService.renewSession got
\* from getCurrentSession
renewSession(s) ==
    LET got == getCurrentSession(s)
    IN  IF got.session = NoSession THEN [got.state EXCEPT !.ret = "false"]
        ELSE IF isSessionExpired(got.state, got.session)
        THEN [got.state EXCEPT !.ret = "false"]
        ELSE [saveSession(got.state,
                    [got.session EXCEPT
                        !.expiresAt = s.now + sessionDuration])
                EXCEPT !.ret = "true"]

\* initializeAuth, on every page load
initializeAuth(s) ==
    LET user == getCurrentUser(s)
    IN  IF user.ret # "null" THEN renewSession(user) ELSE user

\* AuthService.register with valid data; ret names the message
register(s, email, password) ==
    LET user == [email |-> email, password |-> hashPassword(password),
                 isActive |-> TRUE]
    IN  IF {u \in s.storage.users : u.email = email} # {}
        THEN [s EXCEPT !.ret = "exists"]
        ELSE IF s.storage.throws THEN [s EXCEPT !.ret = "error"]
        ELSE [createSession([s EXCEPT !.storage =
                                [@ EXCEPT !.users = @ \cup {user}]],
                            user, FALSE)
                EXCEPT !.ret = "success"]

\* AuthService.login; ret names the message of the result. An empty
\* password is the string ""
login(s, credentials) ==
    LET email == ToLowerCase(credentials.email)
        users == UsersByEmail(s, email)
        user == CHOOSE u \in users : TRUE
    IN  IF credentials.password = ""
        THEN [s EXCEPT !.ret = "invalid"]
        ELSE IF isUserBlocked(s, email)
        THEN [s EXCEPT !.ret = "blocked"]
        ELSE IF users = {}
        THEN [recordFailedAttempt(s, email) EXCEPT !.ret = "incorrect"]
        ELSE IF ~user.isActive
        THEN [s EXCEPT !.ret = "inactive"]
        ELSE IF ~verifyPassword(credentials.password, user.password)
        THEN [recordFailedAttempt(s, email) EXCEPT !.ret = "incorrect"]
        ELSE [createSession(clearLoginAttempts(s, email), user,
                            credentials.rememberMe)
                EXCEPT !.ret = "success"]

\* The clock of the login form moves in steps of 20 minutes
TickMs == 20 * MinuteMs

\* The state after register() of the account of the model
AuthInit ==
    /\ now = 1
    /\ tasks = <<>>
    /\ activities = <<>>
    /\ availableTags = DefaultTags
    /\ filter = "all"
    /\ notifications = <<>>
    /\ activeReminders = EmptyMap
    /\ timers = {}
    /\ nextUid = 1
    /\ nextNotif = 1
    /\ nextTimer = 1
    /\ storage = [throws |-> FALSE, keys |-> {},
                  tasks |-> <<>>, tags |-> <<>>, activities |-> <<>>,
                  notifications |-> <<>>,
                  users |-> {[email |-> AnaEmail,
                              password |-> hashPassword(GoodPassword),
                              isActive |-> TRUE]},
                  loginAttempts |-> EmptyMap, session |-> NoSession]
    /\ dialog = NoDialog
    /\ jsonFile = EmptyFile
    /\ csvFile = <<>>
    /\ stats = InitialStatistics
    /\ lastOp = NoOp

RecentAttempts(email) ==
    LET Recent(timestamp) == timestamp > now - HourMs
    IN  Len(SelectSeq(UserAttempts(St, email), Recent))

\* The login form is submitted; id is 1 for the right password, arg the
\* email in lower case, pre the number of attempts of the last hour
Login ==
    \E lower \in {AnaEmail, "bob@x.io"}, upper \in BOOLEAN,
       password \in {GoodPassword, "secreta", ""} :
        Becomes(login(St, [email |-> <<lower, upper>>,
                           password |-> password, rememberMe |-> FALSE]),
                "login", IF password = GoodPassword THEN 1 ELSE 0, lower,
                RecentAttempts(lower))

Tick ==
    /\ now + TickMs <= 1 + MaxTicks * TickMs
    /\ Becomes([St EXCEPT !.now = now + TickMs], "advance", 0, TickMs, 0)

AuthNext ==
    \/ Login
    \/ Tick

SpecAuth == AuthInit /\ [][AuthNext]_vars

(* Sessions: register, login, logout, the page load and the queries, over  *)
(* a clock that moves in days                                              *)

SessionInit == MgrInit({<<>>})

\* A login with the right password; pre is 1 with rememberMe
SessionLogin ==
    \E rememberMe \in BOOLEAN :
        Becomes(login(St, [email |-> <<AnaEmail, FALSE>>,
                           password |-> GoodPassword,
                           rememberMe |-> rememberMe]),
                "login", 1, AnaEmail, IF rememberMe THEN 1 ELSE 0)

DayTick ==
    /\ now + DayMs <= 1 + MaxDays * DayMs
    /\ Becomes([St EXCEPT !.now = now + DayMs], "advance", 0, DayMs, 0)

SessionNext ==
    \/ Becomes(register(St, AnaEmail, GoodPassword), "register", 0, AnaEmail,
               0)
    \/ SessionLogin
    \/ Becomes(logout(St), "logout", 0, 0, 0)
    \/ Becomes(getCurrentUser(St), "getCurrentUser", 0, 0, 0)
    \/ Becomes(initializeAuth(St), "initializeAuth", 0, 0, 0)
    \/ DayTick

SpecSession == SessionInit /\ [][SessionNext]_vars

(* Export and import as CSV of a list of one task *)

\* The state record after initializeApp()
InitialState ==
    [now |-> 1, tasks |-> <<>>, activities |-> <<>>,
     availableTags |-> DefaultTags, filter |-> "all", notifications |-> <<>>,
     activeReminders |-> EmptyMap, timers |-> {}, nextUid |-> 1,
     nextNotif |-> 1, nextTimer |-> 1,
     storage |-> [throws |-> FALSE, keys |-> {}, tasks |-> <<>>,
                  tags |-> <<>>,
                  activities |-> <<>>, notifications |-> <<>>,
                  users |-> {}, loginAttempts |-> EmptyMap,
                  session |-> NoSession],
     dialog |-> NoDialog, jsonFile |-> EmptyFile, csvFile |-> <<>>,
     stats |-> InitialStatistics, ret |-> "void"]

RECURSIVE Strings(_, _)
Strings(alphabet, n) ==
    IF n = 0 THEN {<<>>}
    ELSE LET shorter == Strings(alphabet, n - 1)
         IN  shorter \cup {Append(str, a) : str \in shorter, a \in alphabet}

\* The title of the example, and every title up to MaxTitleLen atoms that
\* addTask accepts
TitleSayHi == <<"Say", Space, Quote, "hi", Quote>>

CsvTitles ==
    {TitleSayHi} \cup
        {str \in Strings({"hi", Quote, Comma, Space}, MaxTitleLen) :
            str # <<>> /\ Trim(str) = str}

\* The state after addTask(title) and, when complete holds, toggleTask
CsvInit ==
    \E title \in CsvTitles, complete \in BOOLEAN :
        LET added == addTask(InitialState, title, Undefined)
            s == IF complete THEN toggleTask(added, 1) ELSE added
        IN  /\ now = s.now
            /\ tasks = s.tasks
            /\ activities = s.activities
            /\ availableTags = s.availableTags
            /\ filter = s.filter
            /\ notifications = s.notifications
            /\ activeReminders = s.activeReminders
            /\ timers = s.timers
            /\ nextUid = s.nextUid
            /\ nextNotif = s.nextNotif
            /\ nextTimer = s.nextTimer
            /\ storage = s.storage
            /\ dialog = s.dialog
            /\ jsonFile = s.jsonFile
            /\ csvFile = s.csvFile
            /\ stats = s.stats
            /\ lastOp = [op |-> "addTask", id |-> 1, arg |-> Undefined,
                         ret |-> "void", pre |-> 0]

\* The identifiers and the instants a CSV file of the model can name
CsvIds == (0 - 2)..(MaxUid + 2)
CsvInstants == 0..MaxTime

ExportToCSV ==
    \E commaLocale \in BOOLEAN :
        /\ Idle
        /\ nextUid <= MaxUid
        /\ Becomes(exportToCSV(St, commaLocale), "exportToCSV", 0, 0,
                   Len(activities))

\* A file made by hand: a row of three values
CSVDoneRow ==
    Join(<<Join(<<(<<"ID">>), (<<"Título">>), (<<"Estado">>)>>, Comma),
           Join(<<IdString(0 - 1), TitleA, (<<"Completada">>)>>, Comma)>>,
         LineFeed)

\* A file made by hand: a header of two columns
CSVShortHeader ==
    Join(<<Join(<<(<<"ID">>), (<<"Título">>)>>, Comma),
           Join(<<IdString(0 - 1), TitleA>>, Comma)>>,
         LineFeed)

PickedCSVFiles ==
    {CSVDoneRow, CSVShortHeader}
        \cup (IF csvFile = <<>> THEN {} ELSE {csvFile})

\* The user picks a .csv file; id is 1 for a malformed file
ImportFromCSV ==
    \E content \in PickedCSVFiles, parses \in BOOLEAN :
        /\ Idle
        /\ nextUid <= MaxUid
        /\ Becomes(handleFileImport(St, "csv", content, CsvIds, CsvInstants,
                                    parses),
                   "importFromCSV", IF content = CSVShortHeader THEN 1 ELSE 0,
                   IF content = csvFile THEN 1 ELSE 0, Len(activities))

CsvNext ==
    \/ ExportToCSV
    \/ ImportFromCSV
    \/ DialogConfirm
    \/ DialogCancel

SpecCSV == CsvInit /\ [][CsvNext]_vars

(* The confirmation dialogs of import, resetAll and clearHistory, with     *)
(* reminders whose timers run while a dialog is open                       *)

DialogsNext ==
    \/ AddTask({Undefined, now + 1})
    \/ OpenConfirm
    \/ ImportFromJSON
    \/ ImportFromCSV
    \/ ImportOther
    \/ DialogConfirm
    \/ DialogCancel
    \/ TimerFire
    \/ Advance

SpecDialogs == Init /\ [][DialogsNext]_vars

----------------------------------------------------------------------------
(* Properties of the reminder scheduler *)

OneTimerPerTask ==
    /\ \A t1, t2 \in timers : t1.taskId = t2.taskId => t1 = t2
    /\ \A t \in timers :
        /\ t.taskId \in DOMAIN activeReminders
        /\ activeReminders[t.taskId].timeoutId = t.handle

ScheduleReplaces ==
    (lastOp'.op = "scheduleReminder" /\ lastOp'.ret = "true") =>
        LET mine == {t \in timers' : t.taskId = lastOp'.id}
        IN  /\ Cardinality(mine) = 1
            /\ \A t \in mine : t \notin timers
            /\ \A t \in timers : t.taskId = lastOp'.id => t \notin timers'

\* A timer that left the pending set never comes back: it cannot fire
GoneIsGone == \A t \in timers' \ timers : t.handle >= nextTimer

\* C1: at most one timer is pending per task identifier, and a successful
\* scheduleReminder for a task leaves exactly the new timer pending for it:
\* the earlier one is cancelled and never fires.
C1_OneTimerPerTask ==
    /\ []OneTimerPerTask
    /\ [][ScheduleReplaces /\ GoneIsGone]_vars

C1_Witness ==
    /\ lastOp.op = "scheduleReminder"
    /\ lastOp.ret = "true"
    /\ lastOp.pre = 1
    /\ Cardinality({t \in timers : t.taskId = lastOp.id}) = 1

\* C2: scheduleReminder with datetime <= now returns false and leaves the
\* pending reminders and their timers as they were.
C2_PastDateRejected ==
    [][(lastOp'.op = "scheduleReminder" /\ lastOp'.arg <= now) =>
            /\ lastOp'.ret = "false"
            /\ UNCHANGED <<activeReminders, timers>>]_vars

C2_Witness ==
    /\ lastOp.op = "scheduleReminder"
    /\ lastOp.arg <= now
    /\ lastOp.ret = "false"
    /\ lastOp.pre = 1
    /\ lastOp.id \in DOMAIN activeReminders
    /\ activeReminders[lastOp.id].datetime > now

----------------------------------------------------------------------------
(* Properties of the notification feed *)

FeedBounded == Len(notifications) <= MAX_NOTIFICATIONS

AddsNotification(op) ==
    op \in {"createSystemNotification", "createTaskCompletedNotification",
            "timer"}

NotificationIds(feed) == {feed[i].id : i \in 1..Len(feed)}

AddPrepends ==
    AddsNotification(lastOp'.op) =>
        /\ notifications' # <<>>
        /\ notifications'[1].id = nextNotif
        /\ Len(notifications') = Min(Len(notifications) + 1, MAX_NOTIFICATIONS)
        /\ \A i \in 2..Len(notifications') :
                notifications'[i] = notifications[i - 1]
        /\ Len(notifications) = MAX_NOTIFICATIONS =>
                notifications[MAX_NOTIFICATIONS].id
                    \notin NotificationIds(notifications')

\* C5: the feed never holds more than 50 notifications; addNotification
\* puts the new notification at index 0 and, on a full feed, drops the
\* oldest (last) one.
C5_FeedBounded ==
    /\ []FeedBounded
    /\ [][AddPrepends]_vars

C5_Witness ==
    /\ AddsNotification(lastOp.op)
    /\ lastOp.pre = MAX_NOTIFICATIONS
    /\ Len(notifications) = MAX_NOTIFICATIONS
    /\ notifications[1].id = nextNotif - 1

----------------------------------------------------------------------------
(* Properties of the task repository and the activity log *)

\* C3: every task has completedAt defined if and only if it is done.
C3_CompletedAtIffDone ==
    \A i \in 1..Len(tasks) :
        (tasks[i].completedAt # Undefined) <=> tasks[i].done

ActivityBounded == Len(activities) <= MAX_ACTIVITIES

ActivityIds(log) == {log[i].id : i \in 1..Len(log)}

\* The steps that log on the log as it is: clearHistory empties the log and
\* an import replaces it first
LogsOnCurrentLog ==
    /\ activities' # activities
    /\ ~(lastOp'.op = "confirm" /\ dialog.kind \in {"clearHistory",
                                                    "importJSON"})

AddActivityPrepends ==
    /\ lastOp'.op = "exportToJSON" => activities' # activities
    /\ LogsOnCurrentLog =>
        /\ activities'[1].id \notin ActivityIds(activities)
        /\ activities'[1].timestamp = now
        /\ Len(activities') = Min(Len(activities) + 1, MAX_ACTIVITIES)
        /\ \A i \in 2..Len(activities') : activities'[i] = activities[i - 1]
        /\ Len(activities) = MAX_ACTIVITIES =>
                activities[MAX_ACTIVITIES].id \notin ActivityIds(activities')

\* C4: the activity log never holds more than 100 entries; addActivity
\* puts the new entry at index 0 and, on a log of 100 entries, the oldest
\* (last) entry is gone afterwards.
C4_ActivityBounded ==
    /\ []ActivityBounded
    /\ [][AddActivityPrepends]_vars

C4_Witness ==
    /\ lastOp.op = "exportToJSON"
    /\ lastOp.pre = MAX_ACTIVITIES
    /\ Len(activities) = MAX_ACTIVITIES
    /\ activities[1].type = "export"
    /\ activities[MAX_ACTIVITIES] = FileActivity(MAX_ACTIVITIES - 2)

\* exportToJSON, then importFromJSON of the file written, confirmed
RoundTrip ==
    LET exported == exportToJSON(St)
    IN  importFromJSONConfirmed(exported, exported.jsonFile)

ReadBack(t) ==
    IF t.completedAt = NaNValue THEN [t EXCEPT !.completedAt = Undefined]
    ELSE t

ToggledTask(i) ==
    /\ lastOp'.op = "toggleTask"
    /\ lastOp'.id = tasks[i].id
    /\ \A j \in 1..Len(tasks) : tasks[j].id = tasks[i].id => j = i
    /\ tasks[i].reminder # Undefined

TimersOf(set, id) == {t \in set : t.taskId = id}

ToggleHandlesReminder ==
    \A i \in 1..Len(tasks) :
        ToggledTask(i) =>
            LET t == tasks[i]
            IN  /\ \E j \in 1..Len(tasks') :
                        tasks'[j].id = t.id /\ tasks'[j].done = ~t.done
                /\ ~t.done =>
                        /\ t.id \notin DOMAIN activeReminders'
                        /\ TimersOf(timers', t.id) = {}
                /\ (t.done /\ t.reminder > now) =>
                        /\ t.id \in DOMAIN activeReminders'
                        /\ activeReminders'[t.id].datetime = t.reminder
                        /\ Cardinality(TimersOf(timers', t.id)) = 1
                        /\ \A u \in TimersOf(timers', t.id) :
                                u.due = t.reminder /\ u \notin timers
                /\ (t.done /\ t.reminder <= now) =>
                        UNCHANGED <<activeReminders, timers>>

\* C10: toggleTask on a task with a reminder: completing the task cancels
\* its pending reminder; reactivating it schedules the reminder again for
\* reminder.datetime when that is later than now, and schedules nothing
\* when it is not.
C10_ToggleHandlesReminder == [][ToggleHandlesReminder]_vars

\* A completed task was reactivated before its reminder was due
C10_Witness ==
    /\ lastOp.op = "toggleTask"
    /\ lastOp.arg = 1
    /\ lastOp.id \in DOMAIN activeReminders
    /\ activeReminders[lastOp.id].datetime > now
    /\ \E i \in 1..Len(tasks) :
            /\ tasks[i].id = lastOp.id
            /\ ~tasks[i].done
            /\ tasks[i].reminder = activeReminders[lastOp.id].datetime

----------------------------------------------------------------------------
(* Properties of the statistics engine *)

StatsComputed == lastOp.op = "getDetailedStatistics"

\* The days, counted back from today, that have a completed task
CompletionDays ==
    {(Midnight(now) - Midnight(storage.tasks[i].completedAt)) \div DayMs :
        i \in {j \in 1..Len(storage.tasks) :
                    Truthy(storage.tasks[j].completedAt)}}

\* The number of consecutive days with a completion, from today backwards
ConsecutiveDays ==
    CHOOSE k \in 0..(Len(storage.tasks) + 1) :
        /\ k \notin CompletionDays
        /\ \A g \in 0..(k - 1) : g \in CompletionDays

\* C6: calculateStreakDays is the number of consecutive calendar days,
\* counted backwards from today, that each have a completed task; tasks
\* completed today, yesterday and 3 days ago give 2.
C6_StreakDays ==
    StatsComputed =>
        /\ stats.streakDays = ConsecutiveDays
        /\ CompletionDays = {0, 1, 3} => stats.streakDays = 2

ScoreInputs ==
    [total |-> Len(storage.tasks),
     completed |-> Cardinality({i \in 1..Len(storage.tasks) :
                        storage.tasks[i].done}),
     createdInLast7Days |-> Cardinality({i \in 1..Len(storage.tasks) :
                        storage.tasks[i].createdAt > now - WeekMs}),
     completedInLast7Days |-> Cardinality({i \in 1..Len(storage.tasks) :
                        /\ storage.tasks[i].completedAt # Undefined
                        /\ storage.tasks[i].completedAt > now - WeekMs})]

\* C7: calculateProductivityScore is an integer in 0..100, equal to
\* min(100, round(completed / total * 100 * 0.6
\*                + min(5 * createdInLast7Days, 30)
\*                + min(10 * completedInLast7Days, 10))),
\* and 0 when there are no tasks.
C7_ProductivityScore ==
    StatsComputed =>
        LET in == ScoreInputs
        IN  /\ stats.productivityScore \in 0..100
            /\ in.total = 0 => stats.productivityScore = 0
            /\ in.total > 0 =>
                \* round(x) = n iff n - 1/2 <= x < n + 1/2, times 2 * total
                LET twice == 120 * in.completed
                             + 2 * in.total
                                 * (Min(5 * in.createdInLast7Days, 30)
                                    + Min(10 * in.completedInLast7Days, 10))
                    n == stats.productivityScore
                IN  \/ /\ n < 100
                       /\ (2 * n - 1) * in.total <= twice
                       /\ twice < (2 * n + 1) * in.total
                    \/ /\ n = 100
                       /\ 199 * in.total <= twice

\* Both bonuses are at their caps
C7_Witness ==
    /\ StatsComputed
    /\ ScoreInputs.createdInLast7Days > 6
    /\ ScoreInputs.completedInLast7Days > 1
    /\ ScoreInputs.completed < ScoreInputs.total
    /\ stats.productivityScore = 70

----------------------------------------------------------------------------
(* Properties of the CSV format *)

\* The second field of the first row of the file of the last export
ExportedTitleField == Split(Split(csvFile, LineFeed)[2], Comma)[2]

\* C9: CSV export writes the title between double quotes with every double
\* quote of the title doubled (Say "hi" becomes "Say ""hi"""), and the
\* import of the exported row gives a task with the original title.
C9_TitleRoundTrip ==
    /\ (lastOp.op = "exportToCSV" /\ tasks[1].title = TitleSayHi) =>
            ExportedTitleField = <<Quote, "Say", Space, Quote, Quote, "hi",
                                   Quote, Quote, Quote>>
    /\ (lastOp.op = "importFromCSV" /\ lastOp.arg = 1 /\ ~Idle
            /\ Len(tasks) = 1 /\ tasks[1].title = TitleSayHi) =>
            /\ Len(dialog.file.tasks) = 1
            /\ dialog.file.tasks[1].title = TitleSayHi

----------------------------------------------------------------------------
(* Properties of the reminder scheduler: cancelling, firing, snoozing *)

\* The pending reminders of the tasks other than id
OtherReminders(map, id) == [k \in DOMAIN map \ {id} |-> map[k]]

CancelRemoves ==
    lastOp'.op = "cancelReminder" =>
        /\ lastOp'.id \notin DOMAIN activeReminders'
        /\ TimersOf(timers', lastOp'.id) = {}
        /\ activeReminders' = OtherReminders(activeReminders, lastOp'.id)
        /\ timers' = timers \ TimersOf(timers, lastOp'.id)
        /\ lastOp'.ret = "void"
        /\ UNCHANGED <<notifications, tasks, activities, storage>>
        /\ lastOp'.id \notin DOMAIN activeReminders =>
                UNCHANGED <<activeReminders, timers>>

\* A reminder notification comes from the timer of a pending reminder
ReminderNeedsPending ==
    /\ lastOp'.op = "timer" =>
            /\ lastOp'.id \in DOMAIN activeReminders
            /\ \E t \in timers \ timers' :
                    t.handle = activeReminders[lastOp'.id].timeoutId
    /\ \A i \in 1..Len(notifications') :
            (/\ notifications'[i].type = "reminder"
             /\ notifications'[i].id \notin NotificationIds(notifications))
                => (lastOp'.op = "timer"
                        /\ notifications'[i].taskId = lastOp'.id)

\* A reminder becomes pending through scheduleReminder only: called
\* directly, by snoozeReminder or by the snooze button of a notification
PendingNeedsSchedule ==
    \A id \in DOMAIN activeReminders' :
        (id \notin DOMAIN activeReminders
            \/ activeReminders'[id] # activeReminders[id])
            => (/\ lastOp'.id = id
                /\ lastOp'.op \in {"scheduleReminder", "snoozeReminder",
                                   "snooze"})

\* C11: cancelReminder removes the pending reminder of the task, and no
\* reminder notification is produced for the task until scheduleReminder
\* is called for it again; without a pending reminder it changes nothing
\* and reports nothing.
C11_CancelReminder ==
    [][CancelRemoves /\ ReminderNeedsPending /\ PendingNeedsSchedule]_vars

C11_Witness ==
    /\ lastOp.op = "cancelReminder"
    /\ lastOp.pre = 1
    /\ lastOp.id \notin DOMAIN activeReminders
    /\ TimersOf(timers, lastOp.id) = {}
    /\ activeReminders # EmptyMap

\* The notification a reminder timer puts in the feed
FiredNotification ==
    /\ notifications' # <<>>
    /\ notifications'[1].type = "reminder"
    /\ notifications'[1].taskId = lastOp'.id
    /\ ~notifications'[1].read
    /\ notifications'[1].id \notin NotificationIds(notifications)
    /\ \A i \in 2..Len(notifications') :
            notifications'[i] = notifications[i - 1]
    /\ Len(notifications') = Min(Len(notifications) + 1, MAX_NOTIFICATIONS)

TimerFires ==
    lastOp'.op = "timer" =>
        /\ lastOp'.id \in DOMAIN activeReminders
        \* no earlier than the target instant
        /\ now >= activeReminders[lastOp'.id].datetime
        /\ FiredNotification
        /\ lastOp'.id \notin DOMAIN activeReminders'
        \* at most once: the timer is gone and no timer comes back
        /\ TimersOf(timers', lastOp'.id) = {}
        /\ \A t \in timers' \ timers : t.handle >= nextTimer

\* C12: a pending reminder fires no earlier than its target instant and
\* at most once; the firing puts one unread reminder notification with
\* the task identifier at index 0 of the feed and takes the task out of
\* the pending set.
C12_TimerFires == [][TimerFires]_vars

\* What scheduleReminder(id, title, datetime) does to the pending set and
\* returns, written from the two states of a step
ScheduledAs(id, datetime) ==
    IF datetime > now
    THEN /\ lastOp'.ret = "true"
         /\ id \in DOMAIN activeReminders'
         /\ activeReminders'[id].taskId = id
         /\ activeReminders'[id].datetime = datetime
         /\ activeReminders'[id].taskTitle \in MgrTitles
         /\ OtherReminders(activeReminders', id)
                = OtherReminders(activeReminders, id)
    ELSE /\ lastOp'.ret = "false"
         /\ activeReminders' = activeReminders

SnoozeIsSchedule ==
    lastOp'.op = "snoozeReminder" =>
        ScheduledAs(lastOp'.id, now + lastOp'.arg * MinuteMs)

SnoozeSucceeds ==
    lastOp'.op = "snoozeReminder" => lastOp'.ret = "true"

\* C13: snoozeReminder(taskId, title, minutes) returns what
\* scheduleReminder(taskId, title, now + minutes*60000) returns and changes
\* the pending set the same way, and it never fails the past-date check:
\* it returns true for every number of minutes it takes.
C13_SnoozeReminder == [][SnoozeIsSchedule /\ SnoozeSucceeds]_vars

\* The feed without the notification of the given identifier
RECURSIVE Without(_, _)
Without(feed, id) ==
    IF feed = <<>> THEN <<>>
    ELSE IF Head(feed).id = id THEN Without(Tail(feed), id)
    ELSE <<Head(feed)>> \o Without(Tail(feed), id)

ActionRemoves ==
    lastOp'.op \in {"view_task", "snooze"} =>
        /\ lastOp'.arg \in NotificationIds(notifications)
        /\ notifications' = Without(notifications, lastOp'.arg)
        /\ Len(notifications') = Len(notifications) - 1
        /\ storage'.notifications = notifications'

ActionDispatches ==
    /\ lastOp'.op = "snooze" =>
        /\ lastOp'.id \in DOMAIN activeReminders'
        /\ activeReminders'[lastOp'.id].datetime
                = now + SnoozeMinutes * MinuteMs
        /\ Cardinality(TimersOf(timers', lastOp'.id)) = 1
    /\ lastOp'.op = "view_task" =>
        /\ activeReminders' = activeReminders
        /\ timers' = timers

\* C14: invoking an action of a notification, view_task or snooze,
\* dispatches it (snooze schedules the reminder of the task ten minutes
\* ahead, view_task leaves the scheduler alone) and then removes that
\* notification and no other: the rest of the feed keeps its entries and
\* their order.
C14_ActionRemoves == [][ActionRemoves /\ ActionDispatches]_vars

\* A snooze taken on the second of two notifications
C14_Witness ==
    /\ lastOp.op = "snooze"
    /\ lastOp.pre >= 2
    /\ notifications # <<>>
    /\ lastOp.arg < notifications[1].id
    /\ lastOp.arg \notin NotificationIds(notifications)

ConfirmKinds == {"importJSON", "importCSV", "resetAll", "clearHistory"}

\* The records of the task repository in localStorage
TaskRecords(st) ==
    [tasks |-> st.tasks, tags |-> st.tags, activities |-> st.activities,
     keys |-> st.keys \cap {"tasks", "tags", "activities"}]

TaskDataUnchanged ==
    /\ tasks' = tasks
    /\ availableTags' = availableTags
    /\ activities' = activities
    /\ TaskRecords(storage') = TaskRecords(storage)

\* Opening one of the dialogs changes nothing, and while it is open only
\* the confirmation changes something: a timer callback and the decline
\* leave the task data as they were when the dialog opened
DeclineKeeps ==
    /\ dialog'.kind \in ConfirmKinds /\ dialog.kind = "none"
            => TaskDataUnchanged
    /\ dialog.kind \in ConfirmKinds /\ lastOp'.op # "confirm"
            => TaskDataUnchanged
    /\ dialog.kind \in ConfirmKinds /\ lastOp'.op = "cancel"
            => dialog'.kind = "none"

\* C15: declining the confirmation dialog of a JSON import, a CSV import,
\* resetAll or clearHistory leaves the tasks, the available tags, the
\* activity log and their persisted records as they were when the dialog
\* opened, also when reminder timers fire while the dialog is open.
C15_DeclineKeeps == [][DeclineKeeps]_vars

\* A dialog declined right after a reminder fired behind it
C15_Witness ==
    /\ lastOp.op = "cancel"
    /\ lastOp.arg = 1
    /\ tasks # <<>>
    /\ notifications # <<>>

ImportOps == {"importFromJSON", "importFromCSV"}

MalformedShowsError ==
    (lastOp'.op \in ImportOps /\ lastOp'.id = 1) =>
        /\ lastOp'.ret = "showError"
        /\ TaskDataUnchanged
        /\ dialog' = dialog

\* C16: a malformed file given to handleFileImport, a JSON file without a
\* tasks array or a CSV file whose header has fewer than 3 columns, puts
\* an error message on the screen and leaves the tasks, the tags and the
\* activities unchanged.
C16_MalformedShowsError == [][MalformedShowsError]_vars

ReloadRestores ==
    lastOp'.op = "reload" =>
        /\ Len(tasks') = Len(loadTasks(St))
        /\ \A i \in 1..Len(storage.tasks) :
                "tasks" \in storage.keys =>
                    \E j \in 1..Len(tasks') : tasks'[j] = storage.tasks[i]
        /\ availableTags' = loadTags(St)
        /\ activities' = loadActivities(St)

\* C17: on load the task list, the tag list and the activity log in memory
\* are the ones the previous session persisted, the empty list or the four
\* seed tags only when the key is absent: every task persisted before a
\* reload is present after it.
C17_ReloadRestores == [][ReloadRestores]_vars

MutatingOps == {"addTask", "toggleTask", "removeTask", "timer"}

\* What each operation leaves in memory
InMemoryEffect ==
    /\ lastOp'.op = "addTask" =>
        \/ tasks' = tasks /\ activities' = activities
        \/ /\ Len(tasks') = Len(tasks) + 1
           /\ lastOp'.id \in {tasks'[i].id : i \in 1..Len(tasks')}
           /\ activities' # <<>>
           /\ activities'[1].type = "create"
           /\ activities'[1].taskId = lastOp'.id
    /\ lastOp'.op = "toggleTask" =>
        /\ Len(tasks') = Len(tasks)
        /\ \A i \in 1..Len(tasks) : tasks[i].id = lastOp'.id =>
                \E j \in 1..Len(tasks') :
                    /\ tasks'[j].id = lastOp'.id
                    /\ tasks'[j].done = ~tasks[i].done
        /\ activities' # <<>>
        /\ activities'[1].taskId = lastOp'.id
    /\ lastOp'.op = "removeTask" =>
        /\ lastOp'.id \notin {tasks'[i].id : i \in 1..Len(tasks')}
        /\ Len(tasks') = Len(tasks) - 1
        /\ activities' # <<>>
        /\ activities'[1].type = "delete"
    /\ lastOp'.op = "timer" => FiredNotification

WriteThrows ==
    (storage.throws /\ lastOp'.op \in MutatingOps) =>
        /\ InMemoryEffect
        /\ lastOp'.ret # "threw"
        /\ storage' = storage

\* C18: when the write to storage throws, the operation that changes the
\* tasks or the feed still completes: the collection in memory holds the
\* new value, no exception reaches the caller, nothing is persisted, and
\* the operations after it work the same way.
C18_WriteThrows == [][WriteThrows]_vars

\* Two tasks added one after the other while every write throws
C18_Witness ==
    /\ storage.throws
    /\ lastOp.op = "addTask"
    /\ Len(tasks) = 2
    /\ storage.tasks = <<>>
    /\ "tasks" \notin storage.keys

IdsOf(seq) == {seq[i].id : i \in 1..Len(seq)}

\* The tasks whose creation instant is a number after, or before, a bound
CreatedAfter(bound) ==
    {tasks[i].id : i \in {j \in 1..Len(tasks) :
        tasks[j].createdAt >= 0 /\ tasks[j].createdAt > bound}}

CreatedBefore(bound) ==
    {tasks[i].id : i \in {j \in 1..Len(tasks) :
        tasks[j].createdAt >= 0 /\ tasks[j].createdAt < bound}}

Shown(ids) ==
    /\ IdsOf(lastOp.ret) = ids
    /\ Len(lastOp.ret) = Cardinality(ids)
    /\ \A i \in 1..Len(lastOp.ret) :
            \E j \in 1..Len(tasks) : lastOp.ret[i] = tasks[j]

\* C19: with no search and no tag filter, the filter recent shows exactly
\* the tasks created after now - 24 hours and the filter old exactly the
\* tasks created before now - 7 days: of A, created an hour ago, and B,
\* created 8 days ago, recent shows A alone and old shows B alone.
C19_RecentAndOld ==
    lastOp.op = "visibleTasks" =>
        /\ filter = "recent" => Shown(CreatedAfter(now - DayMs))
        /\ filter = "old" => Shown(CreatedBefore(now - WeekMs))

\* The example: A an hour old, B eight days old, and recent shows A
C19_Witness ==
    /\ lastOp.op = "visibleTasks"
    /\ filter = "recent"
    /\ Len(tasks) = 2
    /\ tasks[1].createdAt = now - HourMs
    /\ tasks[2].createdAt = now - 8 * DayMs
    /\ lastOp.ret = <<tasks[1]>>

Attempts(map, email) == IF email \in DOMAIN map THEN map[email] ELSE <<>>

\* Five failed attempts are recorded for the email, all of the last hour
FiveRecentFailures(email) ==
    /\ Len(Attempts(storage.loginAttempts, email)) = maxLoginAttempts
    /\ \A i \in 1..maxLoginAttempts :
            now - Attempts(storage.loginAttempts, email)[i] < HourMs

LoginBlocks ==
    lastOp'.op = "login" =>
        \* blocked, the right password included, and nothing changes
        /\ (FiveRecentFailures(lastOp'.arg) /\ lastOp'.ret # "invalid") =>
                /\ lastOp'.ret = "blocked"
                /\ storage' = storage
        \* a failed attempt is recorded with its instant, the last five kept
        /\ lastOp'.ret = "incorrect" =>
                Attempts(storage'.loginAttempts, lastOp'.arg)
                    = LastOf(Append(Attempts(storage.loginAttempts,
                                             lastOp'.arg), now),
                             maxLoginAttempts)
        \* a successful login clears the failed attempts of the email
        /\ lastOp'.ret = "success" =>
                /\ lastOp'.arg \notin DOMAIN storage'.loginAttempts
                /\ storage'.session.email = lastOp'.arg
        \* the right password of an account that is not blocked logs in
        /\ (lastOp'.id = 1 /\ lastOp'.arg = AnaEmail
                /\ ~FiveRecentFailures(lastOp'.arg)) =>
                lastOp'.ret = "success"

\* C20: after 5 failed login attempts for an email within one hour, every
\* further login for it is rejected as blocked, the right password
\* included, as long as the 5 attempts are all less than an hour old; a
\* successful login clears the failed attempts of the email.
C20_LoginBlocks == [][LoginBlocks]_vars

\* The right password refused while the account is blocked
C20_Witness ==
    /\ lastOp.op = "login"
    /\ lastOp.id = 1
    /\ lastOp.arg = AnaEmail
    /\ lastOp.ret = "blocked"
    /\ lastOp.pre = maxLoginAttempts

SessionLives ==
    \* a session is created with its expiry a day, or a week, ahead
    /\ (lastOp'.op \in {"login", "register"} /\ lastOp'.ret = "success") =>
        /\ storage'.session.email = lastOp'.arg
        /\ storage'.session.createdAt = now
        /\ storage'.session.status = "active"
        /\ storage'.session.expiresAt
                = now + (IF lastOp'.pre = 1 THEN 7 ELSE 1) * DayMs
    \* the query: null and the record removed once the session is past
    \* its expiry, the user of the session before that
    /\ lastOp'.op = "getCurrentUser" =>
        IF storage.session = NoSession \/ now > storage.session.expiresAt
        THEN lastOp'.ret = "null" /\ storage'.session = NoSession
        ELSE lastOp'.ret = storage.session.email /\ storage' = storage
    /\ lastOp'.op = "logout" => storage'.session = NoSession

\* C21: a session created by login or register expires at its creation
\* instant + 24 hours, 7 x 24 hours with rememberMe; once now is past
\* expiresAt, getCurrentSession and getCurrentUser return null,
\* isAuthenticated is false and the stored session record is removed;
\* after logout there is no current user.
C21_SessionLives == [][SessionLives]_vars

\* The query that finds a rememberMe session expired and removes it
C21_Witness ==
    /\ lastOp.op = "getCurrentUser"
    /\ lastOp.ret = "null"
    /\ storage.session = NoSession
    /\ storage.users # {}
    /\ now > 1 + 7 * DayMs

RenewKeepsExpiry ==
    (lastOp'.op = "initializeAuth" /\ storage.session # NoSession
        /\ now <= storage.session.expiresAt) =>
        /\ storage'.session # NoSession
        /\ storage'.session.expiresAt >= storage.session.expiresAt

\* C30: renewing a valid session never moves its expiry earlier: after
\* renewSession, also as called by initializeAuth on every page load, the
\* expiresAt of the session is at least what it was before the call, for
\* sessions created with rememberMe too.
C30_RenewKeepsExpiry == [][RenewKeepsExpiry]_vars

\* C22: in every reachable state of the task repository, after a CSV
\* import and after a JSON import too, no two tasks have the same
\* identifier, so toggleTask(id), removeTask(id) and editTaskTitle(id)
\* each affect at most one task.
C22_UniqueIds ==
    \A i, j \in 1..Len(tasks) : tasks[i].id = tasks[j].id => i = j

\* C23: every pending reminder belongs to a task of the repository: after
\* removeTask, clearDone, resetAll or an import removes a task, no timer
\* for that task is pending and no reminder notification for it comes
\* later.
C23_ReminderHasTask ==
    /\ \A id \in DOMAIN activeReminders : id \in TaskIds
    /\ \A t \in timers : t.taskId \in TaskIds

\* C24: no completed task has a pending reminder: in every state reached
\* by adding tasks, toggling them, reminder firings and notification
\* actions, snooze pressed on a reminder notification after its task was
\* completed included, a task with done = true has no entry in the
\* pending set.
C24_DoneHasNoReminder ==
    \A i \in 1..Len(tasks) :
        tasks[i].done => tasks[i].id \notin DOMAIN activeReminders

\* C25: within one session, after any sequence of add, toggle, reminder
\* firing, JSON import and CSV import, every task of the repository that
\* is not done and whose reminder is later than now has a pending timer
\* in the scheduler.
C25_OpenReminderPending ==
    \A i \in 1..Len(tasks) :
        (~tasks[i].done /\ tasks[i].reminder > now) =>
            /\ tasks[i].id \in DOMAIN activeReminders
            /\ TimersOf(timers, tasks[i].id) # {}

ReadOnlyIfOpenedAfter ==
    lastOp'.op = "dropdownCallback" =>
        \A i \in 1..Len(notifications) :
            (~notifications[i].read
                /\ notifications[i].timestamp > lastOp'.arg) =>
                \E j \in 1..Len(notifications') :
                    /\ notifications'[j].id = notifications[i].id
                    /\ ~notifications'[j].read

\* C26: a notification is marked read only by an opening of the feed that
\* came after it was added: a notification added after the click on the
\* dropdown and before the delayed markAllAsRead callback of that click
\* runs, as by a reminder timer that fires in between, is still unread
\* after the callback.
C26_ReadOnlyIfOpenedAfter == [][ReadOnlyIfOpenedAfter]_vars

ResetAllClears ==
    (lastOp'.op = "confirm" /\ dialog.kind = "resetAll") =>
        /\ tasks' = <<>>
        /\ availableTags' = DefaultTags
        /\ activities' = <<>>
        /\ loadTasks(St)' = <<>>
        /\ loadTags(St)' = DefaultTags
        /\ loadActivities(St)' = <<>>

\* C28: after a confirmed resetAll the task list is empty, the available
\* tags are the default tags and the activity log is empty, in memory and
\* in what storage gives back at the next load.
C28_ResetAllClears == [][ResetAllClears]_vars

\* The step of addTask that took no identifier: the title was empty after
\* the trim
AddTaskRefused == lastOp'.op = "addTask" /\ nextUid' = nextUid

AddTaskInserted == lastOp'.op = "addTask" /\ nextUid' # nextUid

\* first tells where the new task is to be found
AddTaskFrame(first) ==
    /\ AddTaskRefused =>
            UNCHANGED <<now, tasks, activities, availableTags, filter,
                        notifications, activeReminders, timers, nextNotif,
                        nextTimer, storage, dialog, jsonFile, csvFile,
                        stats>>
    /\ AddTaskInserted =>
            LET id == lastOp'.id
                Old(t) == t.id # id
            IN  /\ Len(tasks') = Len(tasks) + 1
                /\ first
                /\ \E i \in 1..Len(tasks') :
                        /\ tasks'[i].id = id
                        /\ tasks'[i].title # <<>>
                        /\ tasks'[i].title = Trim(tasks'[i].title)
                        /\ ~tasks'[i].done
                        /\ tasks'[i].completedAt = Undefined
                /\ SelectSeq(tasks', Old) = tasks
                /\ activities'[1].type = "create"
                /\ activities'[1].taskId = id
                /\ Tail(activities') =
                        Slice(activities, MAX_ACTIVITIES - 1)

Ahead == {i \in 1..Len(tasks) : Gt(tasks[i].createdAt, now)}

TasksPersisted ==
    /\ loadTasks(St) = [i \in 1..Len(tasks) |-> JSONTask(tasks[i])]
    /\ loadTags(St) = availableTags
    /\ loadActivities(St) =
            [i \in 1..Len(activities) |-> JSONActivity(activities[i])]

FeedPersisted == loadNotifications(St) = notifications

\* The steps that change the tasks, the tags or the activities, and the
\* steps that change the feed
WritesTasks ==
    \/ lastOp'.op \in {"toggleTask", "removeTask", "clearDone", "setFilter",
                       "confirm", "exportToJSON", "exportToCSV"}
    \/ AddTaskInserted

WritesFeed ==
    \/ lastOp'.op \in {"timer", "markAllAsRead", "clearAllNotifications",
                       "view_task", "snooze"}
    \/ lastOp'.op = "toggleTask" /\ lastOp'.arg = 0

\* C27, as stated: after every completed operation that changes tasks,
\* tags, activities or notifications and in which no write to storage
\* throws, the persisted record of each of the collections equals the
\* collection in memory.
C27_AllPersisted ==
    [][((WritesTasks \/ WritesFeed) /\ ~storage.throws) =>
            (TasksPersisted' /\ FeedPersisted')]_vars

\* C27, amended: after such an operation the persisted records of the
\* collections the operation writes equal the collections in memory:
\* tasks, tags and activities after an operation on the task list, the
\* notifications after an operation on the feed. A collection whose last
\* write threw stays behind until an operation of its own writes again.
C27_OwnPersisted ==
    [][~storage.throws =>
            /\ WritesTasks => TasksPersisted'
            /\ WritesFeed => FeedPersisted']_vars

\* removeTask wrote the keys of the task list; the feed holds the
\* notification of a completion whose write was refused, and its key is
\* behind
C27_Witness ==
    /\ lastOp.op = "removeTask"
    /\ ~storage.throws
    /\ activities[1].type = "delete"
    /\ "tasks" \in storage.keys
    /\ TasksPersisted
    /\ notifications # <<>>
    /\ ~FeedPersisted

====
